---- MODULE Spec2Model ----
(***************************************************************************)
(* Criteria-extraction pipeline of green-taxo:                             *)
(*   backend/app/agents/llm_document_soft_agents.py  (soft extractor)      *)
(*   backend/app/agents/llm_document_agents.py       (full extractor)      *)
(*   backend/app/agents/llm_config.py                (LLM construction)    *)
(*   backend/app/tasks/document_analysis.py          (analysis job)        *)
(*   backend/app/services/documents.py               (upload, readers)     *)
(*                                                                         *)
(* Python values are modelled as tagged records [t, v]:                    *)
(*   [t |-> "int",  v |-> an integer]                                      *)
(*   [t |-> "str",  v |-> a sequence of one-character strings]             *)
(*   [t |-> "null", v |-> 0]                                               *)
(*   [t |-> "list", v |-> a sequence of values]                            *)
(*   [t |-> "bool", v |-> TRUE or FALSE]                                   *)
(*   [t |-> "obj",  v |-> a dict: the sequence of its [key, val] entries   *)
(*                        in insertion order, keys pairwise different]     *)
(* A text (a Python str being processed character by character) is a       *)
(* sequence of one-character strings; the backquote is written BACKTICK.   *)
(* A call that may raise returns [exc, msg, val]: exc = "none" and the     *)
(* returned value in val, or the exception's class in exc and str(e) in    *)
(* msg (without the position a decode error appends, and without the type  *)
(* names a comparison error appends).                                      *)
(***************************************************************************)
EXTENDS Integers, Sequences, FiniteSets, TLC

VARIABLES
    m_pc, m_in, m_out,      \* the merger applied on its own: position, input, result
    m_again,                \* the merger applied to its own output
    m_perm, m_perm_out,     \* the input in another order, and the merger's result on it
    c_pc, c_text, c_max,    \* the chunker applied on its own: position, text, max_chars
    c_chunks, c_again,      \* its result, and the result of a second call
    r_pc, r_in,             \* JSON repair applied on its own: position, response text
    r_kind, r_base,         \* how the response was derived, and from which JSON text
    r_out, r_full,          \* results of the soft and of the full extractor's repair
    pc,                     \* position in extract_criteria_from_regulation
    extractor,              \* "soft" or "full": the extractor class in use
    regulation_text,        \* argument regulation_text
    document_metadata,      \* argument document_metadata
    chunks,                 \* _extract_from_chunks: chunks
    chunk_index,            \* the loop's i + 1: the next chunk to extract
    all_criteria,           \* the accumulator of the chunk loop
    kickoff_result,         \* what the last crew.kickoff() returned or raised
    outcome,                \* how the call ended: the dict returned, or the exception raised
    ops,                    \* history: what was done with the last response
    chunk_errors,           \* the log lines "Error processing chunk" (line 242)
    caught,                 \* the exception handled at lines 119, 383 or 391
    chunk_calls,            \* history: the crew.kickoff() calls of the chunk loop,
                            \* each with its chunk and the criteria it gave or its error
    i_pc,                   \* position in the extractor's constructor
    llm_provider, llm_tier, \* self.llm_provider, self.llm_tier
    environment,            \* installed client packages, configured keys, client API
    llm,                    \* self.llm, or the exception the constructor raised
    j_pc,                   \* position of the analysis job
    retries,                \* self.request.retries
    executions,             \* history: how often the job body was started
    analysis_status,        \* documents.analysis_status as committed
    criterias,              \* the committed rows of table criterias
    uncommitted,            \* rows inserted in the job's open transaction
    job_result,             \* result: what extract_criteria_from_regulation returned or raised
    job_exc,                \* the exception e of line 204, if one was raised
    insert_index,           \* the next criterion of the loop of line 174
    seen_status,            \* what the last GET of the analysis answered
    seen_criterias          \* what the last GET of /criterias answered

merge_vars == <<m_pc, m_in, m_out, m_again, m_perm, m_perm_out>>

chunk_vars == <<c_pc, c_text, c_max, c_chunks, c_again>>

repair_vars == <<r_pc, r_in, r_kind, r_base, r_out, r_full>>

extract_vars ==
    <<pc, extractor, regulation_text, document_metadata, chunks, chunk_index,
      all_criteria, kickoff_result, outcome, ops, chunk_errors, caught,
      chunk_calls>>

llm_vars == <<i_pc, llm_provider, llm_tier, environment, llm>>

job_vars ==
    <<j_pc, retries, executions, analysis_status, criterias, uncommitted, job_result,
      job_exc, insert_index, seen_status, seen_criterias>>

vars == <<merge_vars, chunk_vars, repair_vars, extract_vars, llm_vars, job_vars>>

-----------------------------------------------------------------------------
(* Python values *)

PyInt(n) == [t |-> "int", v |-> n]
PyStr(s) == [t |-> "str", v |-> s]
PyNull == [t |-> "null", v |-> 0]
PyBool(b) == [t |-> "bool", v |-> b]
PyList(s) == [t |-> "list", v |-> s]
PyObj(d) == [t |-> "obj", v |-> d]

Returned(x) == [exc |-> "none", msg |-> "", val |-> x]
Raised(cls, m) == [exc |-> cls, msg |-> m, val |-> PyNull]

(* try: attempt / except: fallback *)
OrElse(attempt, fallback) == IF attempt.exc = "none" THEN attempt ELSE fallback

(* str.lower(): the cased characters of the modelled alphabet *)
Lower(s) ==
    LET UpperChars == <<"A", "B", "C", "D", "E", "G", "H", "K", "W">>
        LowerChars == <<"a", "b", "c", "d", "e", "g", "h", "k", "w">>
        LowerChar(c) ==
            IF \E i \in 1..Len(UpperChars) : UpperChars[i] = c
            THEN LowerChars[CHOOSE i \in 1..Len(UpperChars) : UpperChars[i] = c]
            ELSE c
    IN [i \in 1..Len(s) |-> LowerChar(s[i])]

(* str.strip(): leading and trailing whitespace removed *)
Whitespace == {" ", "\n", "\t", "\r", "FORMFEED", "VTAB"}

RECURSIVE LStrip(_)
LStrip(s) ==
    IF s # <<>> /\ Head(s) \in Whitespace THEN LStrip(Tail(s)) ELSE s

RECURSIVE RStrip(_)
RStrip(s) ==
    IF s # <<>> /\ s[Len(s)] \in Whitespace
    THEN RStrip(SubSeq(s, 1, Len(s) - 1))
    ELSE s

Strip(s) == RStrip(LStrip(s))

(* A dict keeps its keys in insertion order; assigning to a key it *)
(* already holds keeps the key's position                         *)
DictHas(d, k) == \E i \in 1..Len(d) : d[i].key = k

DictIndex(d, k) == CHOOSE i \in 1..Len(d) : d[i].key = k

DictLookup(d, k) == d[DictIndex(d, k)].val

DictSet(d, k, x) ==
    IF DictHas(d, k)
    THEN [d EXCEPT ![DictIndex(d, k)] = [key |-> k, val |-> x]]
    ELSE Append(d, [key |-> k, val |-> x])

DictValues(d) == [i \in 1..Len(d) |-> d[i].val]

(* The keys the code reads or writes; a key is a text *)
KeyName == <<"n", "a", "m", "e">>
KeyDescription == <<"d", "e", "s", "c", "r", "i", "p", "t", "i", "o", "n">>
KeyCoefficient == <<"c", "o", "e", "f", "f", "i", "c", "i", "e", "n", "t">>
KeyCriteria == <<"c", "r", "i", "t", "e", "r", "i", "a">>
KeyExtractionDate ==
    <<"e", "x", "t", "r", "a", "c", "t", "i", "o", "n", "_", "d", "a", "t", "e">>
KeyTotalCriteria ==
    <<"t", "o", "t", "a", "l", "_", "c", "r", "i", "t", "e", "r", "i", "a">>

(* key in obj, and obj.get(key, default), on a value that is a dict *)
HasKey(obj, key) == DictHas(obj.v, key)

DictGet(obj, key, default) ==
    IF DictHas(obj.v, key) THEN DictLookup(obj.v, key) ELSE default

(* Code-point order of the characters a string coefficient may hold *)
CodeOrder == <<"1", "2", "3", "8", "9", "a", "h", "i">>

Ord(c) == CHOOSE i \in 1..Len(CodeOrder) : CodeOrder[i] = c

RECURSIVE StrGreater(_, _)
StrGreater(a, b) ==
    IF a = <<>> THEN FALSE
    ELSE IF b = <<>> THEN TRUE
    ELSE IF Head(a) = Head(b) THEN StrGreater(Tail(a), Tail(b))
    ELSE Ord(Head(a)) > Ord(Head(b))

(* a > b raises TypeError unless both are numbers (int, bool) or both str *)
Numeric == {"int", "bool"}

Comparable(a, b) ==
    \/ a.t \in Numeric /\ b.t \in Numeric
    \/ a.t = "str" /\ b.t = "str"

NumberOf(a) == IF a.t = "bool" THEN (IF a.v THEN 1 ELSE 0) ELSE a.v

PyGreater(a, b) ==
    IF a.t = "str" THEN StrGreater(a.v, b.v) ELSE NumberOf(a) > NumberOf(b)


-----------------------------------------------------------------------------
(* json.loads on a text: the decoder of the standard library, for objects, *)
(* arrays, strings with the two-character escapes, integers, null, true    *)
(* and false.  Fractions, exponents and \u escapes are outside the         *)
(* modelled alphabet.                                                      *)

Digits == <<"0", "1", "2", "3", "4", "5", "6", "7", "8", "9">>

IsDigit(c) == \E d \in 1..Len(Digits) : Digits[d] = c

(* s[i:i+1] *)
At(s, i) == IF i >= 1 /\ i <= Len(s) THEN s[i] ELSE ""

RECURSIVE SkipWs(_, _)
SkipWs(s, i) == IF At(s, i) \in {" ", "\t", "\n", "\r"} THEN SkipWs(s, i + 1) ELSE i

Parsed(x, i) == [ok |-> TRUE, msg |-> "", val |-> x, pos |-> i]

Failed(m, i) == [ok |-> FALSE, msg |-> m, val |-> PyNull, pos |-> i]

(* the character an escape sequence \c denotes *)
EscapeChars == <<"\"", "\\", "/", "n", "r", "t", "b", "f">>
EscapeValue == <<"\"", "\\", "/", "\n", "\r", "\t", "BACKSPACE", "FORMFEED">>

(* scanstring: i is the position after the opening quote *)
RECURSIVE ScanString(_, _, _)
ScanString(s, i, acc) ==
    IF i > Len(s) THEN Failed("Unterminated string starting at", i)
    ELSE IF s[i] = "\"" THEN Parsed(PyStr(acc), i + 1)
    ELSE IF s[i] = "\\"
    THEN IF i + 1 > Len(s) THEN Failed("Unterminated string starting at", i)
         ELSE IF \E k \in 1..Len(EscapeChars) : EscapeChars[k] = s[i + 1]
         THEN ScanString(s, i + 2,
                         Append(acc, EscapeValue[CHOOSE k \in 1..Len(EscapeChars) :
                                                     EscapeChars[k] = s[i + 1]]))
         ELSE Failed("Invalid \\escape", i)
    ELSE IF s[i] \in {"\n", "\t", "\r", "BACKSPACE", "FORMFEED"} THEN Failed("Invalid control character at", i)
    ELSE ScanString(s, i + 1, Append(acc, s[i]))

RECURSIVE DigitsEnd(_, _)
DigitsEnd(s, i) == IF IsDigit(At(s, i)) THEN DigitsEnd(s, i + 1) ELSE i

RECURSIVE NumberValue(_)
NumberValue(ds) ==
    IF ds = <<>> THEN 0
    ELSE 10 * NumberValue(SubSeq(ds, 1, Len(ds) - 1)) 
             + (CHOOSE d \in 1..Len(Digits) : Digits[d] = ds[Len(ds)]) - 1

(* NUMBER_RE: an optional minus sign, then 0 or a digit string without *)
(* a leading zero                                                      *)
ScanNumber(s, i) ==
    LET start == IF s[i] = "-" THEN i + 1 ELSE i IN
    IF ~IsDigit(At(s, start)) THEN Failed("Expecting value", i)
    ELSE LET e == IF s[start] = "0" THEN start + 1 ELSE DigitsEnd(s, start)
             mag == NumberValue(SubSeq(s, start, e - 1))
         IN Parsed(PyInt(IF start > i THEN 0 - mag ELSE mag), e)

IsWord(s, i, w) == i + Len(w) - 1 <= Len(s) /\ SubSeq(s, i, i + Len(w) - 1) = w

RECURSIVE ScanOnce(_, _), ScanMembers(_, _, _), ScanElements(_, _, _)

JSONObject(s, i) ==
    LET j == SkipWs(s, i) IN
    IF At(s, j) = "}" THEN Parsed(PyObj(<<>>), j + 1)
    ELSE IF At(s, j) # "\""
    THEN Failed("Expecting property name enclosed in double quotes", j)
    ELSE ScanMembers(s, j + 1, <<>>)

JSONArray(s, i) ==
    LET j == SkipWs(s, i) IN
    IF At(s, j) = "]" THEN Parsed(PyList(<<>>), j + 1)
    ELSE ScanElements(s, j, <<>>)

ScanOnce(s, i) ==
    LET c == At(s, i) IN
    IF c = "\"" THEN ScanString(s, i + 1, <<>>)
    ELSE IF c = "{" THEN JSONObject(s, i + 1)
    ELSE IF c = "[" THEN JSONArray(s, i + 1)
    ELSE IF IsWord(s, i, <<"n", "u", "l", "l">>) THEN Parsed(PyNull, i + 4)
    ELSE IF IsWord(s, i, <<"t", "r", "u", "e">>) THEN Parsed(PyBool(TRUE), i + 4)
    ELSE IF IsWord(s, i, <<"f", "a", "l", "s", "e">>) THEN Parsed(PyBool(FALSE), i + 5)
    ELSE IF c = "-" \/ IsDigit(c) THEN ScanNumber(s, i)
    ELSE Failed("Expecting value", i)

(* i is the position after the opening quote of a key; dict(pairs) keeps *)
(* a repeated key at its first position with its last value              *)
ScanMembers(s, i, pairs) ==
    LET k == ScanString(s, i, <<>>) IN
    IF ~k.ok THEN k
    ELSE LET c == SkipWs(s, k.pos) IN
    IF At(s, c) # ":" THEN Failed("Expecting ':' delimiter", c)
    ELSE LET x == ScanOnce(s, SkipWs(s, c + 1)) IN
    IF ~x.ok THEN x
    ELSE LET e == SkipWs(s, x.pos)
             more == DictSet(pairs, k.val.v, x.val)
         IN
    IF At(s, e) = "}" THEN Parsed(PyObj(more), e + 1)
    ELSE IF At(s, e) # "," THEN Failed("Expecting ',' delimiter", e)
    ELSE LET n == SkipWs(s, e + 1) IN
    IF At(s, n) # "\""
    THEN Failed("Expecting property name enclosed in double quotes", n)
    ELSE ScanMembers(s, n + 1, more)

(* i is the position where an element is expected *)
ScanElements(s, i, items) ==
    LET x == ScanOnce(s, i) IN
    IF ~x.ok THEN x
    ELSE LET e == SkipWs(s, x.pos) IN
    IF At(s, e) = "]" THEN Parsed(PyList(Append(items, x.val)), e + 1)
    ELSE IF At(s, e) # "," THEN Failed("Expecting ',' delimiter", e)
    ELSE ScanElements(s, SkipWs(s, e + 1), Append(items, x.val))

json_loads(s) ==
    LET r == ScanOnce(s, SkipWs(s, 1)) IN
    IF ~r.ok THEN Raised("JSONDecodeError", r.msg)
    ELSE IF SkipWs(s, r.pos) # Len(s) + 1 THEN Raised("JSONDecodeError", "Extra data")
    ELSE Returned(r.val)

-----------------------------------------------------------------------------
(* json.dumps(obj, indent=2) *)

RECURSIVE IntChars(_)
IntChars(n) ==
    IF n < 10 THEN <<Digits[n + 1]>>
    ELSE IntChars(n \div 10) \o <<Digits[(n % 10) + 1]>>

(* the escape sequence written for a character that needs one *)
RECURSIVE EncodeChars(_)
EncodeChars(cs) ==
    IF cs = <<>> THEN <<>>
    ELSE (IF Head(cs) # "/" /\ \E k \in 1..Len(EscapeValue) : EscapeValue[k] = Head(cs)
          THEN <<"\\", EscapeChars[CHOOSE k \in 1..Len(EscapeValue) :
                                       EscapeValue[k] = Head(cs)]>>
          ELSE <<Head(cs)>>)
             \o EncodeChars(Tail(cs))

EncodeString(cs) == <<"\"">> \o EncodeChars(cs) \o <<"\"">>

(* a line break followed by the indentation of a nesting level *)
NewlineIndent(level) == <<"\n">> \o [i \in 1..(2 * level) |-> " "]

RECURSIVE Dumps(_, _), DumpItems(_, _, _), DumpEntries(_, _, _)

DumpItems(items, i, level) ==
    Dumps(items[i], level)
        \o (IF i = Len(items) THEN <<>>
            ELSE <<",">> \o NewlineIndent(level) \o DumpItems(items, i + 1, level))

DumpEntries(d, i, level) ==
    EncodeString(d[i].key) \o <<":", " ">> \o Dumps(d[i].val, level)
        \o (IF i = Len(d) THEN <<>>
            ELSE <<",">> \o NewlineIndent(level) \o DumpEntries(d, i + 1, level))

Dumps(x, level) ==
    IF x.t = "str" THEN EncodeString(x.v)
    ELSE IF x.t = "int"
    THEN (IF x.v < 0 THEN <<"-">> \o IntChars(0 - x.v) ELSE IntChars(x.v))
    ELSE IF x.t = "null" THEN <<"n", "u", "l", "l">>
    ELSE IF x.t = "bool"
    THEN (IF x.v THEN <<"t", "r", "u", "e">> ELSE <<"f", "a", "l", "s", "e">>)
    ELSE IF x.t = "list"
    THEN (IF x.v = <<>> THEN <<"[", "]">>
          ELSE <<"[">> \o NewlineIndent(level + 1) \o DumpItems(x.v, 1, level + 1)
                   \o NewlineIndent(level) \o <<"]">>)
    ELSE (IF x.v = <<>> THEN <<"{", "}">>
          ELSE <<"{">> \o NewlineIndent(level + 1) \o DumpEntries(x.v, 1, level + 1)
                   \o NewlineIndent(level) \o <<"}">>)

json_dumps(x) == Dumps(x, 0)

-----------------------------------------------------------------------------
(* str operations used on a provider response *)

(* s.find(sub, from): the first position at or after from where sub *)
(* occurs, 0 when there is none                                     *)
Find(s, sub, from) ==
    LET hits == {i \in from..(Len(s) - Len(sub) + 1) :
                    SubSeq(s, i, i + Len(sub) - 1) = sub}
    IN IF hits = {} THEN 0 ELSE CHOOSE i \in hits : \A j \in hits : i <= j

(* sub in s *)
Contains(s, sub) == Find(s, sub, 1) # 0

(* s.rfind(c) for a character c *)
RFind(s, c, from) ==
    LET hits == {i \in 1..from : s[i] = c}
    IN IF hits = {} THEN 0 ELSE CHOOSE i \in hits : \A j \in hits : i >= j

(* s.count(c) for a character c *)
Count(s, c) == Cardinality({i \in 1..Len(s) : s[i] = c})

(* s.split(sep) *)
RECURSIVE Split(_, _)
Split(s, sep) ==
    LET at == Find(s, sep, 1) IN
    IF at = 0 THEN <<s>>
    ELSE <<SubSeq(s, 1, at - 1)>> \o Split(SubSeq(s, at + Len(sep), Len(s)), sep)

Repeat(c, n) == [i \in 1..n |-> c]

(* three backquotes; "BACKTICK" stands for the backquote character *)
Fence == <<"BACKTICK", "BACKTICK", "BACKTICK">>

FenceJson == Fence \o <<"j", "s", "o", "n">>

(* "Clean markdown": the text between the first fence and the next one *)
StripFences(result_str) ==
    IF Contains(result_str, FenceJson)
    THEN Strip(Split(Split(result_str, FenceJson)[2], Fence)[1])
    ELSE IF Contains(result_str, Fence)
    THEN Strip(Split(Split(result_str, Fence)[2], Fence)[1])
    ELSE result_str

-----------------------------------------------------------------------------
(* safe_json_loads of llm_document_soft_agents.py *)

(* re.sub(r',(\s*[}\]])', r'\1', s): a comma followed by optional *)
(* whitespace and a closing bracket is removed                     *)
RECURSIVE SkipSpace(_, _)
SkipSpace(s, i) == IF At(s, i) \in Whitespace THEN SkipSpace(s, i + 1) ELSE i

RECURSIVE RemoveTrailingCommas(_, _)
RemoveTrailingCommas(s, i) ==
    IF i > Len(s) THEN <<>>
    ELSE IF s[i] = "," /\ At(s, SkipSpace(s, i + 1)) \in {"}", "]"}
    THEN RemoveTrailingCommas(s, i + 1)
    ELSE <<s[i]>> \o RemoveTrailingCommas(s, i + 1)

(* s[start:end+1] from the first opening brace to the last closing brace *)
SliceObject(s) ==
    IF Contains(s, <<"{">>) /\ Contains(s, <<"}">>)
    THEN LET start == Find(s, <<"{">>, 1)
             end == RFind(s, "}", Len(s))
         IN IF end < start THEN <<>> ELSE SubSeq(s, start, end)
    ELSE s

(* "Try to close unclosed structures": the missing closing braces are *)
(* appended first, then the missing closing square brackets           *)
CloseBraces(s) ==
    IF Count(s, "{") > Count(s, "}")
    THEN s \o Repeat("}", Count(s, "{") - Count(s, "}"))
    ELSE s

CloseSquares(s) ==
    IF Count(s, "[") > Count(s, "]")
    THEN s \o Repeat("]", Count(s, "[") - Count(s, "]"))
    ELSE s

(* mutant: an empty object is returned when the cleaned text does not parse *)
ParseCleaned_Default(cleaned) == OrElse(json_loads(cleaned), Returned(PyObj(<<>>)))

(* the second and third attempts, on the cleaned text *)
ParseCleaned(cleaned) ==
    OrElse(json_loads(cleaned), json_loads(CloseSquares(CloseBraces(cleaned))))

safe_json_loads(s) ==
    OrElse(json_loads(s), ParseCleaned(SliceObject(RemoveTrailingCommas(Strip(s), 1))))

-----------------------------------------------------------------------------
(* safe_json_loads of llm_document_agents.py *)

EndsWith(s, c) == s # <<>> /\ s[Len(s)] = c

(* re.split(r'}\s*$', s)[0]: the text before a closing brace that only *)
(* whitespace follows, or all of s when it does not end that way       *)
BeforeFinalBrace(s) ==
    IF EndsWith(RStrip(s), "}") THEN SubSeq(s, 1, Len(RStrip(s)) - 1) ELSE s

(* the last attempts: a text that ends with an opening bracket gets the *)
(* matching closing one, any other text re-raises the decode error      *)
ParseClosed(s, second) ==
    IF second.exc = "none" THEN second
    ELSE IF EndsWith(Strip(s), "[") THEN json_loads(s \o <<"]">>)
    ELSE IF EndsWith(Strip(s), "{") THEN json_loads(s \o <<"}">>)
    ELSE second

document_agents_safe_json_loads(s) ==
    OrElse(json_loads(s), ParseClosed(s, json_loads(BeforeFinalBrace(s) \o <<"}">>)))

-----------------------------------------------------------------------------
(* EUSustainabilityCriteriaSoftExtractor._chunk_text                        *)
(* A document text may hold tens of thousands of characters: it is held as  *)
(* the sequence of its runs [c, n], character c repeated n >= 1 times,      *)
(* adjacent runs holding different characters.                              *)

Run(c, n) == [c |-> c, n |-> n]

(* len(text) *)
RECURSIVE TextLen(_)
TextLen(t) == IF t = <<>> THEN 0 ELSE Head(t).n + TextLen(Tail(t))

(* a + b *)
Concat(a, b) ==
    IF a # <<>> /\ b # <<>> /\ a[Len(a)].c = b[1].c
    THEN SubSeq(a, 1, Len(a) - 1) \o <<Run(b[1].c, a[Len(a)].n + b[1].n)>> \o Tail(b)
    ELSE a \o b

(* text.strip() *)
RECURSIVE TextLStrip(_)
TextLStrip(t) ==
    IF t # <<>> /\ Head(t).c \in Whitespace THEN TextLStrip(Tail(t)) ELSE t

RECURSIVE TextRStrip(_)
TextRStrip(t) ==
    IF t # <<>> /\ t[Len(t)].c \in Whitespace
    THEN TextRStrip(SubSeq(t, 1, Len(t) - 1))
    ELSE t

TextStrip(t) == TextRStrip(TextLStrip(t))

(* text.split('\n\n'): a run of k line breaks holds k \div 2 separators, *)
(* found from the left; an odd one left over starts the next paragraph   *)
RECURSIVE SplitRuns(_, _, _)
SplitRuns(rest, para, done) ==
    IF rest = <<>> THEN Append(done, para)
    ELSE IF Head(rest).c = "\n" /\ Head(rest).n >= 2
    THEN SplitRuns(Tail(rest),
                   IF Head(rest).n % 2 = 1 THEN <<Run("\n", 1)>> ELSE <<>>,
                   Append(done, para)
                       \o [k \in 1..((Head(rest).n \div 2) - 1) |-> <<>>])
    ELSE SplitRuns(Tail(rest), Append(para, Head(rest)), done)

SplitParagraphs(text) == SplitRuns(text, <<>>, <<>>)

(* mutant: a paragraph is added while the chunk stays at most max_chars *)
RECURSIVE ChunkLoop_AtMost(_, _, _, _)
ChunkLoop_AtMost(paragraphs, current_chunk, done, max_chars) ==
    IF paragraphs = <<>>
    THEN (IF current_chunk # <<>>
          THEN Append(done, TextStrip(current_chunk))
          ELSE done)
    ELSE IF TextLen(current_chunk) + TextLen(Head(paragraphs)) <= max_chars
    THEN ChunkLoop_AtMost(Tail(paragraphs),
                          Concat(Concat(current_chunk, Head(paragraphs)), <<Run("\n", 2)>>),
                          done, max_chars)
    ELSE ChunkLoop_AtMost(Tail(paragraphs),
                          Concat(Head(paragraphs), <<Run("\n", 2)>>),
                          IF current_chunk # <<>>
                          THEN Append(done, TextStrip(current_chunk))
                          ELSE done,
                          max_chars)

(* mutant: the paragraph that does not fit is dropped *)
RECURSIVE ChunkLoop_DropsOverflow(_, _, _, _)
ChunkLoop_DropsOverflow(paragraphs, current_chunk, done, max_chars) ==
    IF paragraphs = <<>>
    THEN (IF current_chunk # <<>>
          THEN Append(done, TextStrip(current_chunk))
          ELSE done)
    ELSE IF TextLen(current_chunk) + TextLen(Head(paragraphs)) < max_chars
    THEN ChunkLoop_DropsOverflow(Tail(paragraphs),
                                 Concat(Concat(current_chunk, Head(paragraphs)),
                                        <<Run("\n", 2)>>),
                                 done, max_chars)
    ELSE ChunkLoop_DropsOverflow(Tail(paragraphs),
                                 <<Run("\n", 2)>>,
                                 IF current_chunk # <<>>
                                 THEN Append(done, TextStrip(current_chunk))
                                 ELSE done,
                                 max_chars)

(* mutant: the paragraph that does not fit is added without a flush *)
RECURSIVE ChunkLoop_NoFlush(_, _, _, _)
ChunkLoop_NoFlush(paragraphs, current_chunk, done, max_chars) ==
    IF paragraphs = <<>>
    THEN (IF current_chunk # <<>>
          THEN Append(done, TextStrip(current_chunk))
          ELSE done)
    ELSE ChunkLoop_NoFlush(Tail(paragraphs),
                           Concat(Concat(current_chunk, Head(paragraphs)),
                                  <<Run("\n", 2)>>),
                           done, max_chars)

(* lines 79-88: the loop over the paragraphs and the final flush *)
RECURSIVE ChunkLoop(_, _, _, _)
ChunkLoop(paragraphs, current_chunk, done, max_chars) ==
    IF paragraphs = <<>>
    THEN (IF current_chunk # <<>>
          THEN Append(done, TextStrip(current_chunk))
          ELSE done)
    ELSE IF TextLen(current_chunk) + TextLen(Head(paragraphs)) < max_chars
    THEN ChunkLoop(Tail(paragraphs),
                   Concat(Concat(current_chunk, Head(paragraphs)), <<Run("\n", 2)>>),
                   done, max_chars)
    ELSE ChunkLoop(Tail(paragraphs),
                   Concat(Head(paragraphs), <<Run("\n", 2)>>),
                   IF current_chunk # <<>>
                   THEN Append(done, TextStrip(current_chunk))
                   ELSE done,
                   max_chars)

_chunk_text(text, max_chars) ==
    IF TextLen(text) <= max_chars THEN <<text>>
    ELSE ChunkLoop(SplitParagraphs(text), <<>>, <<>>, max_chars)

-----------------------------------------------------------------------------
(* EUSustainabilityCriteriaSoftExtractor._merge_and_rank_criteria *)

(* criterion.get('coefficient', 0) *)
Coefficient(criterion) == DictGet(criterion, KeyCoefficient, PyInt(0))

(* name = criterion.get('name', '').lower().strip() *)
NormalizedName(criterion) ==
    Strip(Lower(DictGet(criterion, KeyName, PyStr(<<>>)).v))

(* mutant: a tie replaces the stored entry *)
Replaces_OnTie(incoming, stored) ==
    ~PyGreater(Coefficient(stored), Coefficient(incoming))

(* the replacement test of line 276, both coefficients comparable *)
Replaces(incoming, stored) == PyGreater(Coefficient(incoming), Coefficient(stored))

(* mutant: a criterion without a usable name is stored under the empty name *)
MergeStep_KeepsNameless(unique, criterion) ==
    IF criterion.t # "obj"
    THEN Raised("AttributeError", "object has no attribute 'get'")
    ELSE IF DictGet(criterion, KeyName, PyStr(<<>>)).t # "str"
    THEN Raised("AttributeError", "object has no attribute 'lower'")
    ELSE LET name == Strip(Lower(DictGet(criterion, KeyName, PyStr(<<>>)).v)) IN
         IF ~DictHas(unique, name)
         THEN Returned(DictSet(unique, name, criterion))
         ELSE IF ~Comparable(Coefficient(criterion),
                             Coefficient(DictLookup(unique, name)))
         THEN Raised("TypeError", "'>' not supported between instances")
         ELSE IF PyGreater(Coefficient(criterion), Coefficient(DictLookup(unique, name)))
         THEN Returned(DictSet(unique, name, criterion))
         ELSE Returned(unique)

(* mutant: the last entry seen for a name is kept, whatever its coefficient *)
MergeStep_LastWins(unique, criterion) ==
    IF criterion.t # "obj"
    THEN Raised("AttributeError", "object has no attribute 'get'")
    ELSE IF DictGet(criterion, KeyName, PyStr(<<>>)).t # "str"
    THEN Raised("AttributeError", "object has no attribute 'lower'")
    ELSE IF NormalizedName(criterion) = <<>> THEN Returned(unique)
    ELSE Returned(DictSet(unique, NormalizedName(criterion), criterion))

(* One iteration of the deduplication loop, lines 272-277 *)
MergeStep(unique, criterion) ==
    IF criterion.t # "obj"
    THEN Raised("AttributeError", "object has no attribute 'get'")
    ELSE IF DictGet(criterion, KeyName, PyStr(<<>>)).t # "str"
    THEN Raised("AttributeError", "object has no attribute 'lower'")
    ELSE LET name == NormalizedName(criterion) IN
         IF name = <<>> THEN Returned(unique)
         ELSE IF ~DictHas(unique, name)
         THEN Returned(DictSet(unique, name, criterion))
         ELSE IF ~Comparable(Coefficient(criterion),
                             Coefficient(DictLookup(unique, name)))
         THEN Raised("TypeError", "'>' not supported between instances")
         ELSE IF Replaces(criterion, DictLookup(unique, name))
         THEN Returned(DictSet(unique, name, criterion))
         ELSE Returned(unique)

RECURSIVE MergeLoop(_, _)
MergeLoop(unique, rest) ==
    IF rest = <<>> THEN Returned(unique)
    ELSE LET r == MergeStep(unique, Head(rest)) IN
         IF r.exc # "none" THEN r ELSE MergeLoop(r.val, Tail(rest))

(* mutant: an unstable sort, an entry goes before the entries it ties with *)
RECURSIVE InsertDesc_BeforeEqual(_, _, _)
InsertDesc_BeforeEqual(sorted, x, i) ==
    IF i > Len(sorted) THEN Append(sorted, x)
    ELSE IF ~PyGreater(Coefficient(sorted[i]), Coefficient(x))
    THEN SubSeq(sorted, 1, i - 1) \o <<x>> \o SubSeq(sorted, i, Len(sorted))
    ELSE InsertDesc_BeforeEqual(sorted, x, i + 1)

(* sorted(..., key=coefficient, reverse=True): stable, so entries with  *)
(* equal keys keep the order they have in the list being sorted         *)
RECURSIVE InsertDesc(_, _, _)
InsertDesc(sorted, x, i) ==
    IF i > Len(sorted) THEN Append(sorted, x)
    ELSE IF PyGreater(Coefficient(x), Coefficient(sorted[i]))
    THEN SubSeq(sorted, 1, i - 1) \o <<x>> \o SubSeq(sorted, i, Len(sorted))
    ELSE InsertDesc(sorted, x, i + 1)

RECURSIVE SortedDesc(_)
SortedDesc(s) ==
    IF s = <<>> THEN <<>>
    ELSE InsertDesc(SortedDesc(SubSeq(s, 1, Len(s) - 1)), s[Len(s)], 1)

(* sorted() compares every entry with some other entry, so it raises *)
(* TypeError as soon as two keys of the list cannot be compared      *)
SortRaises(s) ==
    \E i, j \in 1..Len(s) :
        i # j /\ ~Comparable(Coefficient(s[i]), Coefficient(s[j]))

(* sorted_criteria[:15] *)
MaxCriteria == 15

(* mutant: the slice keeps one entry too many *)
Truncate_OffByOne(s) ==
    SubSeq(s, 1, IF Len(s) < MaxCriteria + 1 THEN Len(s) ELSE MaxCriteria + 1)

Truncate(s) == SubSeq(s, 1, IF Len(s) < MaxCriteria THEN Len(s) ELSE MaxCriteria)

_merge_and_rank_criteria(criteria) ==
    IF criteria = <<>> THEN Returned(<<>>)
    ELSE LET u == MergeLoop(<<>>, criteria) IN
         IF u.exc # "none" THEN u
         ELSE IF SortRaises(DictValues(u.val))
         THEN Raised("TypeError", "'<' not supported between instances")
         ELSE Returned(Truncate(SortedDesc(DictValues(u.val))))

-----------------------------------------------------------------------------
(* Python operations that raise on a value of the wrong type *)

TypeName(x) ==
    IF x.t = "null" THEN "NoneType" ELSE IF x.t = "obj" THEN "dict" ELSE x.t

(* x.get(key, default) *)
MethodGet(x, key, default) ==
    IF x.t = "obj" THEN Returned(DictGet(x, key, default))
    ELSE Raised("AttributeError",
                "'" \o TypeName(x) \o "' object has no attribute 'get'")

(* len(x) *)
PyLen(x) ==
    IF x.t \in {"str", "list", "obj"} THEN Returned(Len(x.v))
    ELSE Raised("TypeError", "object of type '" \o TypeName(x) \o "' has no len()")

(* the items list.extend(x) appends: the elements of a list, the *)
(* characters of a str, the keys of a dict                        *)
Iterate(x) ==
    IF x.t = "list" THEN Returned(x.v)
    ELSE IF x.t = "str" THEN Returned([k \in 1..Len(x.v) |-> PyStr(<<x.v[k]>>)])
    ELSE IF x.t = "obj" THEN Returned([k \in 1..Len(x.v) |-> PyStr(x.v[k].key)])
    ELSE Raised("TypeError", "'" \o TypeName(x) \o "' object is not iterable")

(* key in x *)
PyIn(key, x) ==
    IF x.t = "obj" THEN Returned(HasKey(x, key))
    ELSE IF x.t = "list" THEN Returned(\E k \in 1..Len(x.v) : x.v[k] = PyStr(key))
    ELSE IF x.t = "str" THEN Returned(Contains(x.v, key))
    ELSE Raised("TypeError",
                "argument of type '" \o TypeName(x) \o "' is not iterable")

-----------------------------------------------------------------------------
(* EUSustainabilityCriteriaSoftExtractor: parsing and validation of the *)
(* single-pass response                                                  *)

Entry(k, x) == [key |-> k, val |-> x]

Crit(name, desc, coef) ==
    PyObj(<<Entry(KeyName, PyStr(name)), Entry(KeyDescription, PyStr(desc)),
            Entry(KeyCoefficient, coef)>>)

(* lines 352-368: the checks made on one criterion *)
CriterionValid(criterion) ==
    /\ PyIn(KeyName, criterion).val
    /\ PyIn(KeyDescription, criterion).val
    /\ PyIn(KeyCoefficient, criterion).val
    /\ DictGet(criterion, KeyCoefficient, PyNull).t \in Numeric
    /\ NumberOf(DictGet(criterion, KeyCoefficient, PyNull)) >= 1
    /\ NumberOf(DictGet(criterion, KeyCoefficient, PyNull)) <= 10

MinExpected == 10

MaxExpected == 15

(* lines 345-368: the count, then the loop over the criteria; evaluating *)
(* 'name' in criterion raises on a criterion that is no container        *)
ValidateItems(items) ==
    IF \E k \in 1..Len(items) : PyIn(KeyName, items[k]).exc # "none"
    THEN PyIn(KeyName,
              items[CHOOSE k \in 1..Len(items) :
                        /\ PyIn(KeyName, items[k]).exc # "none"
                        /\ \A l \in 1..(k - 1) : PyIn(KeyName, items[l]).exc = "none"])
    ELSE Returned(/\ Len(items) >= MinExpected
                  /\ Len(items) <= MaxExpected
                  /\ \A k \in 1..Len(items) :
                         items[k].t = "obj" /\ CriterionValid(items[k]))

(* Each step of a block takes what the step before it returned or    *)
(* raised: an exception raised by a step ends the block.              *)
_validate_criteria(criteria_json) ==
    LET Counted(n, criteria_list) ==
            IF n.exc # "none" THEN n
            ELSE ValidateItems(Iterate(criteria_list).val)
        Listed(got) ==
            IF got.exc # "none" THEN got ELSE Counted(PyLen(got.val), got.val)
        Checked(has) ==
            IF has.exc # "none" THEN has
            ELSE IF ~has.val THEN Returned(FALSE)
            ELSE Listed(MethodGet(criteria_json, KeyCriteria, PyList(<<>>)))
    IN Checked(PyIn(KeyCriteria, criteria_json))

(* lines 293-317, the try block: criteria_json is the cleaned text *)
(* itself (line 303), on which .get is then called                 *)
ParseBody(result) ==
    LET Cleaned(result_str) ==
            LET Validated(is_valid) ==
                    IF is_valid.exc # "none" THEN is_valid
                    ELSE Returned([status |-> "success",
                                   criteria |-> PyStr(result_str),
                                   raw_result |-> result_str])
                Counted(criteria_count) ==
                    IF criteria_count.exc # "none" THEN criteria_count
                    ELSE Validated(_validate_criteria(PyStr(result_str)))
                Got(criteria) ==
                    IF criteria.exc # "none" THEN criteria
                    ELSE Counted(PyLen(criteria.val))
            IN Got(MethodGet(PyStr(result_str), KeyCriteria, PyList(<<>>)))
    IN Cleaned(Strip(StripFences(result)))

(* except json.JSONDecodeError as e, lines 319-325 and 383-389 *)
ExceptJSONDecodeError(body, result) ==
    IF body.exc = "JSONDecodeError"
    THEN Returned([status |-> "error",
                   error |-> "Failed to parse JSON: " \o body.msg,
                   raw_result |-> result])
    ELSE body

_parse_extraction_result(result) == ExceptJSONDecodeError(ParseBody(result), result)

(* mutant: the error envelope carries no message *)
OuterExcept_NoMessage(e) == [status |-> "error", error |-> "", criteria |-> PyNull]

(* lines 119-125 and 391-397: except Exception as e *)
OuterExcept(e) == [status |-> "error", error |-> e.msg, criteria |-> PyNull]

-----------------------------------------------------------------------------
(* _extract_from_chunks: one chunk, and the final envelope *)

(* lines 225-239, the try block of one loop iteration: the accumulator *)
(* after the chunk, or the exception that line 241 catches             *)
ChunkAttempt(kickoff, accumulated) ==
    LET Extend(items) ==
            IF items.exc # "none" THEN items
            ELSE Returned(accumulated \o items.val)
        Collect(chunk_criteria) ==
            IF chunk_criteria.exc # "none" THEN chunk_criteria
            ELSE Extend(Iterate(chunk_criteria.val))
        Get(chunk_json) ==
            IF chunk_json.exc # "none" THEN chunk_json
            ELSE Collect(MethodGet(chunk_json.val, KeyCriteria, PyList(<<>>)))
    IN IF kickoff.exc # "none" THEN kickoff
       ELSE Get(safe_json_loads(Strip(StripFences(kickoff.val))))

(* mutant: a chunk that fails discards what the earlier chunks gave *)
AfterChunk_DropsAll(attempt, accumulated) ==
    IF attempt.exc = "none" THEN attempt.val ELSE <<>>

(* lines 238-243: the accumulator after the chunk; the except clause *)
(* logs and goes on with the accumulator as it was                   *)
AfterChunk(attempt, accumulated) ==
    IF attempt.exc = "none" THEN attempt.val ELSE accumulated

(* mutant: a chunk whose extraction failed is extracted again *)
NextChunk_Retry(index, attempt) ==
    IF attempt.exc = "none" THEN index + 1 ELSE index

(* lines 190 and 240-243: the for loop goes on to the next chunk, after *)
(* a failure (continue) as after a success                              *)
NextChunk(index, attempt) == index + 1

(* mutant: total_criteria counts one criterion more than the list holds *)
FinalJson_Miscounted(merged_criteria, metadata) ==
    PyObj(<<Entry(KeyTotalCriteria, PyInt(Len(merged_criteria) + 1)),
            Entry(KeyCriteria, PyList(merged_criteria))>>)

(* lines 248-261 *)
FinalJson(merged_criteria, metadata) ==
    PyObj(<<Entry(<<"r", "e", "g", "u", "l", "a", "t", "i", "o", "n", "_",
                    "s", "o", "u", "r", "c", "e">>,
                  DictGet(metadata, KeyName, PyStr(<<"U", "n", "k", "n", "o", "w", "n">>))),
            Entry(KeyExtractionDate,
                  DictGet(metadata, KeyExtractionDate, PyStr(<<>>))),
            Entry(KeyTotalCriteria, PyInt(Len(merged_criteria))),
            Entry(KeyCriteria, PyList(merged_criteria))>>)

SuccessEnvelope(final_json) ==
    [status |-> "success", criteria |-> final_json,
     raw_result |-> json_dumps(final_json)]

ChunkedEnvelope(merged_criteria, metadata) ==
    SuccessEnvelope(FinalJson(merged_criteria, metadata))

-----------------------------------------------------------------------------
(* EUSustainabilityCriteriaExtractor.extract_criteria_from_regulation, *)
(* lines 361-389: the parse of the crew's result                       *)

FullParseBody(result) ==
    LET Cleaned(result_str) ==
            LET Counted(n, criteria_json) ==
                    IF n.exc # "none" THEN n
                    ELSE Returned([status |-> "success", criteria |-> criteria_json,
                                   raw_result |-> result_str])
                Got(criteria, criteria_json) ==
                    IF criteria.exc # "none" THEN criteria
                    ELSE Counted(PyLen(criteria.val), criteria_json)
                Loaded(criteria_json) ==
                    IF criteria_json.exc # "none" THEN criteria_json
                    ELSE Got(MethodGet(criteria_json.val, KeyCriteria, PyList(<<>>)),
                             criteria_json.val)
            IN Loaded(document_agents_safe_json_loads(result_str))
    IN Cleaned(StripFences(result))

FullParse(result) == ExceptJSONDecodeError(FullParseBody(result), result)

-----------------------------------------------------------------------------
(* The inputs: documents, metadata, and what the completion provider does *)

MaxChunkSize == 10000

MaxParagraphs == 3

RECURSIVE JoinParagraphs(_)
JoinParagraphs(lens) ==
    IF Len(lens) = 1 THEN <<Run("x", lens[1])>>
    ELSE <<Run("x", lens[1]), Run("\n", 2)>> \o JoinParagraphs(Tail(lens))

Documents ==
    {JoinParagraphs(lens) :
        lens \in UNION {[1..n -> {4000, MaxChunkSize}] : n \in 1..MaxParagraphs}}

(* analyze_document_task builds the metadata dict: the file name, the *)
(* document date as a text, the document id                           *)
Metadata ==
    PyObj(<<Entry(KeyName, PyStr(<<"r", "e", "g">>)),
            Entry(<<"d", "a", "t", "e">>, PyStr(<<"2", "0", "2", "5">>)),
            Entry(<<"i", "d">>, PyInt(1))>>)

CritGhg == Crit(<<"G", "h", "g">>, <<"p">>, PyInt(2))

CritWater == Crit(<<"W">>, <<"q">>, PyInt(7))

CritGhgHigher == Crit(<<"g", "h", "g", " ">>, <<"r">>, PyInt(5))

CriteriaObject(criteria) == PyObj(<<Entry(KeyCriteria, PyList(criteria))>>)

(* a well-formed object with a criteria list, as json.dumps writes it *)
WellFormed == json_dumps(CriteriaObject(<<CritGhg, CritWater>>))

WellFormedOther == json_dumps(CriteriaObject(<<CritGhgHigher>>))

(* criteria of the wrong shape: no name, a coefficient that is a text *)
BadShape ==
    json_dumps(CriteriaObject(
        <<PyObj(<<Entry(KeyDescription, PyStr(<<"p">>)), Entry(KeyCoefficient, PyInt(3))>>),
          Crit(<<"W">>, <<"s">>, PyStr(<<"8">>))>>))

(* text that is not JSON *)
Garbage == <<"n", "o", "t", " ", "j", "s", "o", "n">>

(* crew.kickoff() returns str(result), or the provider's exception.  The *)
(* texts: the two well-formed objects; the second one inside a markdown  *)
(* fence; the wrong shapes; an object without the criteria key; valid    *)
(* JSON that is not an object; text that is not JSON                     *)
KickoffOutcomes ==
    {Returned(t) : t \in
        {WellFormed,
         WellFormedOther,
         FenceJson \o <<"\n">> \o WellFormedOther \o <<"\n">> \o Fence,
         BadShape,
         json_dumps(PyObj(<<Entry(KeyName, PyStr(<<"x">>))>>)),
         json_dumps(PyList(<<CritWater>>)),
         Garbage}}
        \cup {Raised("RuntimeError", "provider unavailable")}

-----------------------------------------------------------------------------
(* extract_criteria_from_regulation as a state machine *)

NoException == Returned(PyNull)

NoOutcome == Returned([status |-> "none"])

ExtractIdle ==
    /\ pc = "idle"
    /\ extractor = "soft"
    /\ regulation_text = <<>>
    /\ document_metadata = Metadata
    /\ chunks = <<>>
    /\ chunk_index = 1
    /\ all_criteria = <<>>
    /\ kickoff_result = NoException
    /\ outcome = NoOutcome
    /\ ops = <<>>
    /\ chunk_errors = <<>>
    /\ caught = NoException
    /\ chunk_calls = <<>>

MergeIdle ==
    /\ m_pc = "input"
    /\ m_in = <<>>
    /\ m_out = Returned(<<>>)
    /\ m_again = Returned(<<>>)
    /\ m_perm = <<>>
    /\ m_perm_out = Returned(<<>>)

(* _chunk_text not called on its own *)
ChunkIdle ==
    /\ c_pc = "input"
    /\ c_text = <<>>
    /\ c_max = 0
    /\ c_chunks = <<>>
    /\ c_again = <<>>

(* safe_json_loads not called on its own *)
RepairIdle ==
    /\ r_pc = "input"
    /\ r_in = <<>>
    /\ r_kind = "garbage"
    /\ r_base = <<>>
    /\ r_out = Returned(PyNull)
    /\ r_full = Returned(PyNull)

(* no extractor is being constructed *)
ConstructIdle ==
    /\ i_pc = "none"
    /\ llm_provider = ""
    /\ llm_tier = ""
    /\ environment = [installed |-> {}, keys |-> <<>>, client |-> ""]
    /\ llm = Returned(PyNull)

(* no document uploaded, no job *)
JobIdle ==
    /\ j_pc = "none"
    /\ retries = 0
    /\ executions = 0
    /\ analysis_status = "absent"
    /\ criterias = <<>>
    /\ uncommitted = <<>>
    /\ job_result = NoException
    /\ job_exc = NoException
    /\ insert_index = 1
    /\ seen_status = "unseen"
    /\ seen_criterias = <<>>

(* the exception a handler of the call got, if any *)
Handled(body) == IF body.exc # "none" THEN body ELSE NoException

(* mutant: the handler catches decode errors only *)
ExceptDecodeError(r) ==
    IF r.exc = "JSONDecodeError" THEN Returned(OuterExcept(r)) ELSE r

(* try: ... except Exception as e: return {"status": "error", ...} *)
ExceptException(r) ==
    IF r.exc # "none" THEN Returned(OuterExcept(r)) ELSE r

(* The caller calls one of the two extractors on a document. *)
Invoke(which, text) ==
    /\ pc \in {"idle", "returned"}
    /\ extractor' = which
    /\ regulation_text' = text
    /\ all_criteria' = <<>>
    /\ chunk_index' = 1
    /\ kickoff_result' = NoException
    /\ outcome' = NoOutcome
    /\ ops' = <<>>
    /\ chunk_errors' = <<>>
    /\ caught' = NoException
    /\ chunk_calls' = <<>>
    /\ IF which = "full"
       THEN pc' = "full" /\ chunks' = <<>>
       ELSE IF TextLen(text) > MaxChunkSize
       THEN pc' = "chunk" /\ chunks' = _chunk_text(text, MaxChunkSize)
       ELSE pc' = "single" /\ chunks' = <<>>
    /\ UNCHANGED <<document_metadata, merge_vars, chunk_vars, repair_vars, llm_vars, job_vars>>

(* _extract_single_pass under the handler of lines 119-125 *)
SinglePass(kickoff) ==
    /\ pc = "single"
    /\ outcome' = ExceptException(IF kickoff.exc # "none" THEN kickoff
                                  ELSE _parse_extraction_result(kickoff.val))
    /\ caught' = Handled(IF kickoff.exc # "none" THEN kickoff
                         ELSE ParseBody(kickoff.val))
    /\ kickoff_result' = kickoff
    /\ ops' =
        IF kickoff.exc # "none" THEN <<"kickoff">>
        ELSE <<"kickoff", "strip_fences", "get_criteria">>
                 \o (IF ParseBody(kickoff.val).exc = "none" THEN <<"validate">> ELSE <<>>)
    /\ pc' = "returned"
    /\ UNCHANGED <<extractor, regulation_text, document_metadata, chunks,
                   chunk_index, all_criteria, chunk_errors, chunk_calls,
                   merge_vars, chunk_vars, repair_vars, llm_vars, job_vars>>

(* One iteration of the chunk loop, lines 192-243. *)
ChunkStep(kickoff) ==
    /\ pc = "chunk"
    /\ chunk_index <= Len(chunks)
    /\ LET Continue(attempt) ==
               /\ all_criteria' = AfterChunk(attempt, all_criteria)
               /\ chunk_errors' =
                      IF attempt.exc = "none" THEN chunk_errors
                      ELSE Append(chunk_errors,
                                  [chunk |-> chunk_index, error |-> attempt.msg])
               /\ chunk_index' = NextChunk(chunk_index, attempt)
       IN Continue(ChunkAttempt(kickoff, all_criteria))
    /\ chunk_calls' = Append(chunk_calls, [chunk |-> chunks[chunk_index],
                                          gave |-> ChunkAttempt(kickoff, <<>>)])
    /\ kickoff_result' = kickoff
    /\ ops' =
        IF kickoff.exc # "none" THEN <<"kickoff">>
        ELSE <<"kickoff", "strip_fences", "safe_json_loads">>
                 \o (IF safe_json_loads(Strip(StripFences(kickoff.val))).exc = "none"
                     THEN <<"get_criteria">> ELSE <<>>)
    /\ UNCHANGED <<pc, extractor, regulation_text, document_metadata, chunks,
                   outcome, caught, merge_vars, chunk_vars, repair_vars, llm_vars, job_vars>>

(* After the loop, lines 245-261, under the handler of lines 119-125. *)
MergeAndReturn ==
    /\ pc = "chunk"
    /\ chunk_index > Len(chunks)
    /\ LET Finish(body) ==
               /\ outcome' = ExceptException(body)
               /\ caught' = Handled(body)
           Merged(merged_criteria) ==
               IF merged_criteria.exc # "none" THEN merged_criteria
               ELSE Returned(ChunkedEnvelope(merged_criteria.val, document_metadata))
       IN Finish(Merged(_merge_and_rank_criteria(all_criteria)))
    /\ pc' = "returned"
    /\ UNCHANGED <<extractor, regulation_text, document_metadata, chunks,
                   chunk_index, all_criteria, kickoff_result, ops, chunk_errors,
                   chunk_calls, merge_vars, chunk_vars, repair_vars, llm_vars, job_vars>>

(* The full extractor's crew run and parse, lines 171-397. *)
FullExtract(kickoff) ==
    /\ pc = "full"
    /\ outcome' = ExceptException(IF kickoff.exc # "none" THEN kickoff
                                  ELSE FullParse(kickoff.val))
    /\ caught' = Handled(IF kickoff.exc # "none" THEN kickoff
                         ELSE FullParseBody(kickoff.val))
    /\ kickoff_result' = kickoff
    /\ ops' =
        IF kickoff.exc # "none" THEN <<"kickoff">>
        ELSE <<"kickoff", "strip_fences", "safe_json_loads">>
                 \o (IF document_agents_safe_json_loads(StripFences(kickoff.val)).exc = "none"
                     THEN <<"get_criteria">> ELSE <<>>)
    /\ pc' = "returned"
    /\ UNCHANGED <<extractor, regulation_text, document_metadata, chunks,
                   chunk_index, all_criteria, chunk_errors, chunk_calls,
                   merge_vars, chunk_vars, repair_vars, llm_vars, job_vars>>

Init ==
    ExtractIdle /\ MergeIdle /\ ChunkIdle /\ RepairIdle /\ ConstructIdle /\ JobIdle

Next ==
    \/ \E which \in {"soft", "full"}, text \in Documents : Invoke(which, text)
    \/ \E kickoff \in KickoffOutcomes : SinglePass(kickoff)
    \/ \E kickoff \in KickoffOutcomes : ChunkStep(kickoff)
    \/ MergeAndReturn
    \/ \E kickoff \in KickoffOutcomes : FullExtract(kickoff)

Spec == Init /\ [][Next]_vars

-----------------------------------------------------------------------------
(* The merger applied to bounded inputs *)


(* Criteria a provider may return: same-named entries that differ in case, *)
(* padding, description and coefficient; entries without a usable name;    *)
(* entries without an integer coefficient                                  *)
PoolCriteria ==
    { Crit(<<"G", "h", "g">>, <<"p">>, PyInt(2)),
      Crit(<<"g", "h", "g", " ">>, <<"q">>, PyInt(2)),
      Crit(<<" ", "G", "H", "G">>, <<"r">>, PyInt(3)),
      Crit(<<"W">>, <<"p">>, PyInt(2)),
      Crit(<<"w">>, <<"q">>, PyInt(1)),
      Crit(<<"e">>, <<"p">>, PyInt(3)),
      Crit(<<" ", "\n">>, <<"p">>, PyInt(3)),
      Crit(<<>>, <<"q">>, PyInt(3)),
      PyObj(<<Entry(KeyDescription, PyStr(<<"p">>)), Entry(KeyCoefficient, PyInt(3))>>),
      PyObj(<<Entry(KeyName, PyStr(<<"d">>)), Entry(KeyDescription, PyStr(<<"p">>))>>),
      Crit(<<"w">>, <<"r">>, PyStr(<<"8">>)) }

(* A long accumulated list: BulkLen criteria with pairwise distinct names *)
BulkLen == 14

BulkName(i) ==
    LET BulkChars == <<"a", "b", "c", "d", "e">>
    IN <<"K", BulkChars[((i - 1) \div 5) + 1], BulkChars[((i - 1) % 5) + 1]>>

BulkCriteria ==
    [i \in 1..BulkLen |-> Crit(BulkName(i), <<"b">>, PyInt(((i * 7) % 10) + 1))]

(* A list longer than the cut whose coefficients are pairwise distinct *)
DistinctCriteria ==
    [i \in 1..(BulkLen + 2) |-> Crit(BulkName(i), <<"b">>, PyInt(i))]

(* Inputs: up to MaxExtra pool criteria, or the long list followed by up *)
(* to MaxBulkExtra pool criteria, or the list of distinct coefficients   *)
MaxExtra == 3

MaxBulkExtra == 2

SeqsUpTo(S, n) == UNION {[1..k -> S] : k \in 0..n}

MergeInputs ==
    SeqsUpTo(PoolCriteria, MaxExtra)
        \cup {BulkCriteria \o extra : extra \in SeqsUpTo(PoolCriteria, MaxBulkExtra)}
        \cup {DistinctCriteria}

(* The same chunk results accumulated in another order: two neighbours *)
(* exchanged, or the whole list reversed.  Exchanges of neighbours     *)
(* generate every permutation.                                         *)
Reorderings(s) ==
    LET Exchanged(i) ==
            [k \in 1..Len(s) |->
                IF k = i THEN s[i + 1] ELSE IF k = i + 1 THEN s[i] ELSE s[k]]
        Reversed == [k \in 1..Len(s) |-> s[Len(s) + 1 - k]]
    IN {Exchanged(i) : i \in 1..(Len(s) - 1)} \cup {Reversed}

MergeInit ==
    /\ m_pc = "input"
    /\ m_in \in MergeInputs
    /\ m_out = Returned(<<>>)
    /\ m_again = Returned(<<>>)
    /\ m_perm = <<>>
    /\ m_perm_out = Returned(<<>>)
    /\ ExtractIdle
    /\ ChunkIdle
    /\ RepairIdle
    /\ ConstructIdle
    /\ JobIdle

(* merged_criteria = self._merge_and_rank_criteria(all_criteria) *)
MergeCall ==
    /\ m_pc = "input"
    /\ m_out' = _merge_and_rank_criteria(m_in)
    /\ m_pc' = IF m_out'.exc = "none" THEN "returned" ELSE "raised"
    /\ UNCHANGED <<m_in, m_again, m_perm, m_perm_out, extract_vars, chunk_vars, repair_vars, llm_vars, job_vars>>

(* the merged list is fed to the merger again *)
MergeAgain ==
    /\ m_pc = "returned"
    /\ m_again' = _merge_and_rank_criteria(m_out.val)
    /\ m_pc' = "remerged"
    /\ UNCHANGED <<m_in, m_out, m_perm, m_perm_out, extract_vars, chunk_vars, repair_vars, llm_vars, job_vars>>

(* the merger is called on the same criteria in another order *)
MergeReordered(reordered) ==
    /\ m_pc \in {"returned", "raised"}
    /\ m_perm' = reordered
    /\ m_perm_out' = _merge_and_rank_criteria(reordered)
    /\ m_pc' = "reordered"
    /\ UNCHANGED <<m_in, m_out, m_again, extract_vars, chunk_vars, repair_vars, llm_vars, job_vars>>

MergeSpec ==
    MergeInit /\ [][
        \/ MergeCall
        \/ MergeAgain
        \/ \E reordered \in Reorderings(m_in) : MergeReordered(reordered)
    ]_vars

-----------------------------------------------------------------------------
(* Properties of the merger (MergeSpec) *)

MergeReturned == m_pc = "returned"

OutKeys == {NormalizedName(m_out.val[i]) : i \in 1..Len(m_out.val)}

InKeys == {NormalizedName(m_in[k]) : k \in 1..Len(m_in)} \ {<<>>}

(* positions of the input that hold the key of criterion x *)
SameKey(x) == {k \in 1..Len(m_in) : NormalizedName(m_in[k]) = NormalizedName(x)}

Least(S) == CHOOSE k \in S : \A l \in S : k <= l

(* the coefficient of x can be compared with that of y and is not greater *)
NotGreater(x, y) ==
    /\ Comparable(Coefficient(x), Coefficient(y))
    /\ ~PyGreater(Coefficient(x), Coefficient(y))

(* C7: the output holds at most one criterion per normalized name, each   *)
(* output entry is one of the input criteria, and no input criterion with *)
(* the same normalized name has a strictly greater coefficient.           *)
C7_OnePerKeyWithMaxCoefficient ==
    MergeReturned =>
        /\ \A i, j \in 1..Len(m_out.val) :
               i # j => NormalizedName(m_out.val[i]) # NormalizedName(m_out.val[j])
        /\ \A i \in 1..Len(m_out.val) :
               /\ \E k \in SameKey(m_out.val[i]) : m_in[k] = m_out.val[i]
               /\ \A k \in SameKey(m_out.val[i]) :
                      NotGreater(m_in[k], m_out.val[i])

(* a same-named input entry of lower coefficient was replaced by the survivor *)
C7_Witness ==
    /\ MergeReturned
    /\ \E i \in 1..Len(m_out.val) :
           \E k, l \in SameKey(m_out.val[i]) :
               /\ k < l
               /\ m_in[l] = m_out.val[i]
               /\ ~NotGreater(m_in[l], m_in[k])

(* C8: among the input criteria that share an output entry's normalized   *)
(* name and its coefficient, the output entry is the first in input order.*)
C8_FirstSeenWinsOnTie ==
    MergeReturned =>
        \A i \in 1..Len(m_out.val) :
            m_out.val[i] =
                m_in[Least({k \in SameKey(m_out.val[i]) :
                              Coefficient(m_in[k]) = Coefficient(m_out.val[i])})]

(* two different criteria tie on name and coefficient, and the name survives *)
C8_Witness ==
    /\ MergeReturned
    /\ \E i \in 1..Len(m_out.val) :
           \E k \in SameKey(m_out.val[i]) :
               /\ m_in[k] # m_out.val[i]
               /\ Coefficient(m_in[k]) = Coefficient(m_out.val[i])

SortedByCoefficient ==
    \A i, j \in 1..Len(m_out.val) :
        i < j => NotGreater(m_out.val[j], m_out.val[i])

(* position in the input of the surviving entry itself *)
SurvivorIndex(x) == Least({k \in 1..Len(m_in) : m_in[k] = x})

(* position in the input where the survivor's normalized name first occurs *)
FirstKeyIndex(x) == Least(SameKey(x))

(* C9 as stated: the output is sorted by coefficient, non-increasing, and *)
(* survivors with equal coefficients are in the relative order in which   *)
(* they themselves appear in the input.                                   *)
C9_Original_SurvivorOrder ==
    MergeReturned =>
        /\ SortedByCoefficient
        /\ \A i, j \in 1..Len(m_out.val) :
               (i < j /\ Coefficient(m_out.val[i]) = Coefficient(m_out.val[j]))
                   => SurvivorIndex(m_out.val[i]) < SurvivorIndex(m_out.val[j])

(* C9 amended: the output is sorted by coefficient, non-increasing, and   *)
(* survivors with equal coefficients are in the order in which their      *)
(* normalized names first occur in the input.                             *)
C9_SortedStableByFirstOccurrence ==
    MergeReturned =>
        /\ SortedByCoefficient
        /\ \A i, j \in 1..Len(m_out.val) :
               (i < j /\ Coefficient(m_out.val[i]) = Coefficient(m_out.val[j]))
                   => FirstKeyIndex(m_out.val[i]) < FirstKeyIndex(m_out.val[j])

(* a survivor that replaced an earlier same-named entry ties with a *)
(* survivor that was never replaced                                 *)
C9_Witness ==
    /\ MergeReturned
    /\ \E i, j \in 1..Len(m_out.val) :
           /\ i # j
           /\ Coefficient(m_out.val[i]) = Coefficient(m_out.val[j])
           /\ SurvivorIndex(m_out.val[i]) # FirstKeyIndex(m_out.val[i])
           /\ SurvivorIndex(m_out.val[j]) = FirstKeyIndex(m_out.val[j])

(* C10: the output has at most 15 entries; it has one entry per surviving *)
(* name, or 15 when more than 15 names survive, and then no input         *)
(* criterion of a dropped name has a coefficient strictly greater than a  *)
(* kept one.                                                              *)
C10_BoundAndTopRanked ==
    MergeReturned =>
        /\ Len(m_out.val) <= 15
        /\ Len(m_out.val) = IF Cardinality(InKeys) > 15 THEN 15 ELSE Cardinality(InKeys)
        /\ \A k \in 1..Len(m_in) :
               (NormalizedName(m_in[k]) \in InKeys \ OutKeys) =>
                   \A i \in 1..Len(m_out.val) :
                       NotGreater(m_in[k], m_out.val[i])

(* more than 15 names survive deduplication and the output is cut to 15 *)
C10_Witness ==
    /\ MergeReturned
    /\ Cardinality(InKeys) > 15
    /\ Len(m_out.val) = 15

(* C11: merging a merged list again gives the same list, entry by entry *)
(* and in the same order.                                               *)
C11_MergeIdempotent ==
    m_pc = "remerged" => m_again = m_out

(* a list with duplicates, ties and more than 15 names was merged, and *)
(* its result merged again                                             *)
C11_Witness ==
    /\ m_pc = "remerged"
    /\ Len(m_in) > MaxCriteria
    /\ Len(m_out.val) = MaxCriteria
    /\ \E i, j \in 1..Len(m_out.val) :
           i # j /\ Coefficient(m_out.val[i]) = Coefficient(m_out.val[j])
    /\ m_again.exc = "none"

DistinctCoefficients(s) ==
    \A i, j \in 1..Len(s) : i # j => Coefficient(s[i]) # Coefficient(s[j])

(* C12: for an input whose coefficients are pairwise distinct, the   *)
(* merger gives the same result on the input in any other order: the *)
(* same output sequence, or an exception in both orders.             *)
C12_OrderIndependentWithoutTies ==
    (m_pc = "reordered" /\ DistinctCoefficients(m_in))
        => m_perm_out.exc = m_out.exc /\ m_perm_out.val = m_out.val

(* two criteria of one name and a third one, distinct coefficients, *)
(* merged in two different orders                                   *)
C12_Witness ==
    /\ m_pc = "reordered"
    /\ DistinctCoefficients(m_in)
    /\ m_perm # m_in
    /\ Len(m_in) = 3
    /\ m_out.exc = "none"
    /\ Len(m_out.val) = 2
    /\ m_perm_out = m_out

-----------------------------------------------------------------------------
(* The soft extractor on documents of 30,000 characters whose chunk *)
(* extractions return four criteria each (LongSpec)                 *)

(* documents of 30,000 characters: one paragraph; two; three of which *)
(* none or one reaches the chunk size; five that fill a chunk each           *)
LongDocuments ==
    {JoinParagraphs(lens) :
        lens \in {<<30000>>, <<14998, 14998>>, <<9999, 9999, 9998>>,
                  <<10000, 9998, 9998>>,
                  <<4999, 4999, 4999, 4999, 9996>>}}

MaxResponses == 5

(* crew.kickoff() on a chunk: response i holds four criteria; its last *)
(* name is the first name of response i + 1, under another coefficient *)
FourCriteriaOutcomes ==
    LET FourCriteria(i) ==
            [k \in 1..4 |->
                Crit(BulkName((3 * i) - 3 + k), <<"b">>, PyInt(((i + k) % 5) + 1))]
    IN {Returned(json_dumps(CriteriaObject(FourCriteria(i)))) : i \in 1..MaxResponses}

(* one call of the soft extractor on a long document *)
LongSpec ==
    Init /\ [][
        \/ \E text \in LongDocuments : pc = "idle" /\ Invoke("soft", text)
        \/ \E kickoff \in FourCriteriaOutcomes : ChunkStep(kickoff)
        \/ MergeAndReturn
    ]_vars

-----------------------------------------------------------------------------
(* _chunk_text on bounded texts (ChunkSpec) *)

MaxRuns == 5

(* Texts of up to MaxRuns runs, neighbouring runs of different characters. *)
(* The runs: words shorter than, as long as and longer than max_chars, a   *)
(* blank, and line breaks that hold one separator, one separator and a     *)
(* line break, two separators                                              *)
ChunkTexts ==
    LET ChunkRuns ==
            {Run("x", n) : n \in {1, 5, 6, 7}} \cup {Run(" ", 1)}
                \cup {Run("\n", n) : n \in {2, 3, 4}}
    IN {t \in SeqsUpTo(ChunkRuns, MaxRuns) :
           \A i \in 1..(Len(t) - 1) : t[i].c # t[i + 1].c}

ChunkInit ==
    /\ c_pc = "input"
    /\ c_text \in ChunkTexts
    /\ c_max \in {5, 6}
    /\ c_chunks = <<>>
    /\ c_again = <<>>
    /\ ExtractIdle
    /\ MergeIdle
    /\ RepairIdle
    /\ ConstructIdle
    /\ JobIdle

(* chunks = self._chunk_text(regulation_text, max_chars) *)
ChunkCall ==
    /\ c_pc = "input"
    /\ c_chunks' = _chunk_text(c_text, c_max)
    /\ c_pc' = "returned"
    /\ UNCHANGED <<c_text, c_max, c_again, extract_vars, merge_vars, repair_vars, llm_vars, job_vars>>

(* the same call once more *)
ChunkAgain ==
    /\ c_pc = "returned"
    /\ c_again' = _chunk_text(c_text, c_max)
    /\ c_pc' = "repeated"
    /\ UNCHANGED <<c_text, c_max, c_chunks, extract_vars, merge_vars, repair_vars, llm_vars, job_vars>>

ChunkSpec == ChunkInit /\ [][ChunkCall \/ ChunkAgain]_vars

-----------------------------------------------------------------------------
(* Properties of _chunk_text (ChunkSpec) *)

ChunkReturned == c_pc \in {"returned", "repeated"}

SourceParagraphs == SplitParagraphs(c_text)

(* the chunk is one paragraph of the text, of at least the given length *)
SingleParagraphOf(chunk, least) ==
    \E i \in 1..Len(SourceParagraphs) :
        /\ TextLen(SourceParagraphs[i]) >= least
        /\ chunk = TextStrip(SourceParagraphs[i])

(* C13 as stated: a non-final chunk is shorter than max_chars unless it is *)
(* a single paragraph longer than max_chars.                               *)
C13_Original_BelowMaxUnlessLonger ==
    ChunkReturned =>
        \A k \in 1..(Len(c_chunks) - 1) :
            \/ TextLen(c_chunks[k]) < c_max
            \/ SingleParagraphOf(c_chunks[k], c_max + 1)

(* C13: every non-final chunk is shorter than max_chars, unless it is a  *)
(* single paragraph whose own length is at least max_chars.              *)
C13_BelowMaxUnlessSingleParagraph ==
    ChunkReturned =>
        \A k \in 1..(Len(c_chunks) - 1) :
            \/ TextLen(c_chunks[k]) < c_max
            \/ SingleParagraphOf(c_chunks[k], c_max)

(* a first chunk of exactly max_chars characters, followed by another *)
C13_Witness ==
    /\ ChunkReturned
    /\ Len(c_chunks) >= 2
    /\ TextLen(c_chunks[1]) = c_max
    /\ TextLen(c_chunks[2]) < c_max

(* chunk.split on blank lines, for every chunk, in chunk order *)
RECURSIVE ChunkParagraphs(_)
ChunkParagraphs(cs) ==
    IF cs = <<>> THEN <<>>
    ELSE SplitParagraphs(Head(cs)) \o ChunkParagraphs(Tail(cs))

(* the paragraphs without surrounding whitespace, the empty ones left out *)
Trimmed(paragraphs) ==
    LET NonEmpty(p) == p # <<>>
    IN SelectSeq([i \in 1..Len(paragraphs) |-> TextStrip(paragraphs[i])], NonEmpty)

LongText == ChunkReturned /\ TextLen(c_text) > c_max

RECURSIVE JoinRange(_, _, _)
JoinRange(paragraphs, a, b) ==
    IF a = b THEN paragraphs[a]
    ELSE Concat(Concat(paragraphs[a], <<Run("\n", 2)>>), JoinRange(paragraphs, a + 1, b))

(* the ways to cut n paragraphs into m groups of neighbours: the sets of *)
(* the paragraphs after which a group ends                               *)
Cuts(n, m) == {S \in SUBSET (1..(n - 1)) : Cardinality(S) = m - 1}

GroupEnd(S, n, m, k) ==
    IF k = m THEN n ELSE CHOOSE x \in S : Cardinality({y \in S : y < x}) = k - 1

GroupStart(S, n, m, k) == IF k = 1 THEN 1 ELSE GroupEnd(S, n, m, k - 1) + 1

(* every chunk is a group of whole paragraphs; exact says whether the *)
(* chunk is the group as it stands or the group without surrounding   *)
(* whitespace; a paragraph longer than max_chars is a group of its own *)
WholeParagraphs(exact) ==
    LET n == Len(SourceParagraphs)
        m == Len(c_chunks)
        Group(S, k) ==
            JoinRange(SourceParagraphs, GroupStart(S, n, m, k), GroupEnd(S, n, m, k))
    IN m >= 1 /\ m <= n /\
       \E S \in Cuts(n, m) :
           /\ \A k \in 1..m :
                  c_chunks[k] = IF exact THEN Group(S, k) ELSE TextStrip(Group(S, k))
           /\ \A k \in 1..m :
                  (\E i \in GroupStart(S, n, m, k)..GroupEnd(S, n, m, k) :
                       TextLen(SourceParagraphs[i]) > c_max)
                      => GroupStart(S, n, m, k) = GroupEnd(S, n, m, k)

(* C15 as stated: every paragraph lies whole in exactly one chunk, and a *)
(* paragraph longer than max_chars is a chunk of its own.                *)
C15_Original_ParagraphsIntact ==
    ChunkReturned => WholeParagraphs(TRUE)

(* C15: a text of at most max_chars is returned as it is; otherwise the  *)
(* chunks are groups of neighbouring whole paragraphs, each paragraph in *)
(* exactly one group, a chunk being its group without the whitespace     *)
(* around it; a paragraph longer than max_chars is a group of its own.   *)
C15_WholeParagraphsUpToStrip ==
    ChunkReturned =>
        IF TextLen(c_text) <= c_max THEN c_chunks = <<c_text>>
        ELSE WholeParagraphs(FALSE)

(* a paragraph longer than max_chars between two short ones: three chunks *)
C15_Witness ==
    /\ ChunkReturned
    /\ Len(SourceParagraphs) = 3
    /\ TextLen(SourceParagraphs[1]) > 0
    /\ TextLen(SourceParagraphs[2]) > c_max
    /\ TextLen(SourceParagraphs[3]) > 0
    /\ c_chunks = SourceParagraphs

-----------------------------------------------------------------------------
(* safe_json_loads on bounded response texts (RepairSpec) *)

(* JSON texts a provider means to send *)
SmallObject ==
    <<"{", "\"", "a", "\"", ":", "1", "}">>

(* What arrives: the text itself; the text cut short; the text with a    *)
(* comma before a closing bracket that ends a non-empty object or list;  *)
(* the text inside prose; text without JSON                              *)
Responses ==
    LET NestedObject ==
            <<"{", "\"", "a", "\"", ":", " ", "[", "1", ",", "2", "]", ",", " ",
              "\"", "b", "\"", ":", " ", "{", "\"", "c", "\"", ":", " ", "3", "}",
              ",", " ", "\"", "d", "\"", ":", " ", "[", "4", "]", "}">>
        ListOfObjects ==
            <<"[", "{", "\"", "a", "\"", ":", " ", "1", "}", ",", " ", "{", "\"",
              "b", "\"", ":", " ", "[", "2", "]", "}", "]">>
        BaseTexts == {NestedObject, ListOfObjects, SmallObject}
        ProseBefore ==
            <<"H", "e", "r", "e", " ", "i", "s", " ", "t", "h", "e", " ", "r", "e",
              "s", "u", "l", "t", ":", " ">>
        ProseAfter == <<" ", "t", "h", "a", "n", "k", "s">>
        Respond(kind, base, text) == [kind |-> kind, base |-> base, text |-> text]
    IN {Respond("valid", b, b) : b \in BaseTexts}
        \cup UNION {{Respond("truncated", b, SubSeq(b, 1, k)) : k \in 1..(Len(b) - 1)}
                        : b \in BaseTexts}
        \cup UNION {{Respond("comma", b, SubSeq(b, 1, i - 1) \o <<",">> \o SubSeq(b, i, Len(b)))
                        : i \in {j \in 2..Len(b) :
                                    b[j] \in {"}", "]"} /\ b[j - 1] \notin {"{", "[", ","}}}
                        : b \in BaseTexts}
        \cup UNION {{Respond("prose", b, before \o b \o after)
                        : before \in {<<>>, ProseBefore}, after \in {<<>>, ProseAfter}}
                        \ {Respond("prose", b, b)}
                        : b \in BaseTexts}
        \cup {Respond("garbage", <<>>, t) : t \in {Garbage, <<>>, <<"n", "u", "l">>}}

RepairInit ==
    /\ r_pc = "input"
    /\ \E response \in Responses :
           /\ r_in = response.text
           /\ r_kind = response.kind
           /\ r_base = response.base
    /\ r_out = Returned(PyNull)
    /\ r_full = Returned(PyNull)
    /\ ExtractIdle
    /\ MergeIdle
    /\ ChunkIdle
    /\ ConstructIdle
    /\ JobIdle

(* safe_json_loads of llm_document_soft_agents.py *)
RepairSoft ==
    /\ r_pc = "input"
    /\ r_out' = safe_json_loads(r_in)
    /\ r_pc' = "soft"
    /\ UNCHANGED <<r_in, r_kind, r_base, r_full, extract_vars, merge_vars, chunk_vars, llm_vars, job_vars>>

(* safe_json_loads of llm_document_agents.py *)
RepairFull ==
    /\ r_pc = "input"
    /\ r_full' = document_agents_safe_json_loads(r_in)
    /\ r_pc' = "full"
    /\ UNCHANGED <<r_in, r_kind, r_base, r_out, extract_vars, merge_vars, chunk_vars, llm_vars, job_vars>>

RepairSpec == RepairInit /\ [][RepairSoft \/ RepairFull]_vars

-----------------------------------------------------------------------------
(* Properties of safe_json_loads (RepairSpec) *)

(* the brackets a text leaves open, outermost first; brackets inside a *)
(* string do not count                                                 *)
RECURSIVE OpenBrackets(_, _, _, _)
OpenBrackets(s, i, quoted, open) ==
    IF i > Len(s) THEN open
    ELSE IF quoted
    THEN (IF s[i] = "\\" THEN OpenBrackets(s, i + 2, TRUE, open)
          ELSE OpenBrackets(s, i + 1, s[i] # "\"", open))
    ELSE IF s[i] = "\"" THEN OpenBrackets(s, i + 1, TRUE, open)
    ELSE IF s[i] \in {"{", "["} THEN OpenBrackets(s, i + 1, FALSE, Append(open, s[i]))
    ELSE IF s[i] \in {"}", "]"} /\ open # <<>>
    THEN OpenBrackets(s, i + 1, FALSE, SubSeq(open, 1, Len(open) - 1))
    ELSE OpenBrackets(s, i + 1, FALSE, open)

(* the closing brackets that close them, innermost first *)
Closers(s) ==
    LET open == OpenBrackets(s, 1, FALSE, <<>>)
    IN [k \in 1..Len(open) |-> IF open[Len(open) + 1 - k] = "{" THEN "}" ELSE "]"]

(* a prefix of a JSON text that parses once its open brackets are closed *)
TruncatedPrefix ==
    /\ r_kind = "truncated"
    /\ json_loads(r_in).exc # "none"
    /\ Closers(r_in) # <<>>
    /\ json_loads(r_in \o Closers(r_in)).exc = "none"

(* C17: for a JSON prefix with unclosed brackets, safe_json_loads returns *)
(* the structure of the text with its open brackets closed in nesting     *)
(* order.                                                                 *)
C17_TruncatedPrefixClosed ==
    (r_pc = "soft" /\ TruncatedPrefix) => r_out = json_loads(r_in \o Closers(r_in))

TruncatedExample ==
    <<"{", "\"", "a", "\"", ":", " ", "[", "1", ",", "2">>

(* the prefix of the example raises the decode error *)
C17_Witness ==
    /\ r_pc = "soft"
    /\ r_in = TruncatedExample
    /\ TruncatedPrefix
    /\ Closers(r_in) = <<"]", "}">>
    /\ r_out.exc = "JSONDecodeError"

(* C18: for a JSON object with a trailing comma before a closing bracket, *)
(* and for a JSON object inside prose, safe_json_loads (of either         *)
(* extractor) returns the object without the comma or the prose.          *)
C18_CommaAndProseRecovered ==
    (r_kind \in {"comma", "prose"} /\ json_loads(r_base).val.t = "obj")
        => /\ r_pc = "soft" => r_out = json_loads(r_base)
           /\ r_pc = "full" => r_full = json_loads(r_base)

(* the full extractor's safe_json_loads raises on the example with the *)
(* trailing comma                                                      *)
C18_Witness ==
    /\ r_pc = "full"
    /\ r_kind = "comma"
    /\ r_base = SmallObject
    /\ r_full.exc = "JSONDecodeError"

(* C19: a text that holds no JSON (no bracket, not a JSON value) makes   *)
(* safe_json_loads raise the decode error, and a text that parses as it  *)
(* stands is returned as json.loads parses it.                           *)
C19_FailureExplicitValidUnchanged ==
    r_pc = "soft" =>
        /\ r_out.exc \in {"none", "JSONDecodeError"}
        /\ r_kind = "garbage" => r_out.exc = "JSONDecodeError"
        /\ json_loads(r_in).exc = "none" => r_out = json_loads(r_in)

(* the text that is not JSON has raised the decode error *)
C19_Witness ==
    /\ r_pc = "soft"
    /\ r_in = Garbage
    /\ r_out.exc = "JSONDecodeError"
    /\ r_out.msg # ""

-----------------------------------------------------------------------------
(* Properties of extract_criteria_from_regulation (Spec) *)

CallReturned == pc = "returned"

Envelope == outcome.val

Succeeded == outcome.exc = "none" /\ Envelope.status = "success"

Failed_ == outcome.exc = "none" /\ Envelope.status = "error"

(* the path the call took *)
SinglePath == extractor = "soft" /\ TextLen(regulation_text) <= MaxChunkSize

ChunkedPath == extractor = "soft" /\ TextLen(regulation_text) > MaxChunkSize

(* a text that is a JSON object holding a criteria list *)
HoldsCriteriaList(text) ==
    /\ json_loads(text).exc = "none"
    /\ json_loads(text).val.t = "obj"
    /\ HasKey(json_loads(text).val, KeyCriteria)
    /\ DictGet(json_loads(text).val, KeyCriteria, PyNull).t = "list"

ProviderCriteria(text) == DictGet(json_loads(text).val, KeyCriteria, PyNull)

(* the criteria list inside a success envelope *)
EnvelopeCriteria == DictGet(Envelope.criteria, KeyCriteria, PyNull)

(* C1: for a text at or below the size gate, when the provider returns a *)
(* well-formed JSON object holding a criteria list, the soft extractor   *)
(* returns status=success and criteria.criteria is the provider's list.  *)
C1_SinglePassReturnsProviderCriteria ==
    (/\ CallReturned
     /\ SinglePath
     /\ kickoff_result.exc = "none"
     /\ HoldsCriteriaList(kickoff_result.val))
        => /\ Succeeded
           /\ Envelope.criteria.t = "obj"
           /\ EnvelopeCriteria = ProviderCriteria(kickoff_result.val)

(* the single-pass call on a well-formed response ends in status=error *)
C1_Witness ==
    /\ CallReturned
    /\ SinglePath
    /\ kickoff_result = Returned(WellFormed)
    /\ Failed_
    /\ Envelope.error = "'str' object has no attribute 'get'"

(* C2: on every path the provider's response goes through safe_json_loads *)
(* before its criteria key is read.                                        *)
C2_ParsedBeforeStructuralAccess ==
    \A k \in 1..Len(ops) :
        ops[k] = "get_criteria" => \E j \in 1..(k - 1) : ops[j] = "safe_json_loads"

(* the single-pass path reads the criteria key of a response it never parsed *)
C2_Witness ==
    /\ CallReturned
    /\ SinglePath
    /\ kickoff_result.exc = "none"
    /\ \E k \in 1..Len(ops) : ops[k] = "get_criteria"
    /\ \A k \in 1..Len(ops) : ops[k] # "safe_json_loads"

(* the envelope is an error envelope whose error holds the message m *)
ErrorWith(m) ==
    /\ Failed_
    /\ Envelope.error \in {m, "Failed to parse JSON: " \o m}

(* C3 as stated: no exception escapes, and whatever raises, a chunk *)
(* extraction included, the envelope is status=error with the message. *)
C3_Original_EveryExceptionGivesError ==
    /\ outcome.exc = "none"
    /\ CallReturned =>
        /\ caught.exc # "none" => ErrorWith(caught.msg)
        /\ \A k \in 1..Len(chunk_errors) : ErrorWith(chunk_errors[k].error)

(* C3: no exception escapes; an exception that reaches a handler of the *)
(* call gives status=error with its message, and the envelope is an     *)
(* error only then: an exception of a chunk extraction is caught in the *)
(* loop and does not make the envelope an error.                        *)
C3_NoEscapeHandledGivesError ==
    /\ outcome.exc = "none"
    /\ CallReturned =>
        /\ caught.exc # "none" => ErrorWith(caught.msg)
        /\ caught.exc = "none" => Succeeded

(* the merger raised after a chunk was skipped, and the call returned *)
(* the error envelope                                                 *)
C3_Witness ==
    /\ CallReturned
    /\ ChunkedPath
    /\ chunk_errors # <<>>
    /\ caught.exc = "TypeError"
    /\ ErrorWith(caught.msg)

(* a chunk whose provider call or parse fails *)
ChunkFails(kickoff) ==
    \/ kickoff.exc # "none"
    \/ safe_json_loads(Strip(StripFences(kickoff.val))).exc # "none"

IsPrefix(a, b) == Len(a) <= Len(b) /\ SubSeq(b, 1, Len(a)) = a

ChunkTaken == pc = "chunk" /\ chunk_index' = chunk_index + 1

AllChunksFailed == ChunkedPath /\ Len(chunk_errors) = Len(chunks)

(* C4: in the chunked path a chunk whose provider call or parse fails   *)
(* adds no criteria and does not stop the loop; what earlier chunks     *)
(* gave is kept, every chunk is extracted before the call returns, and  *)
(* when every chunk fails the envelope is status=success with an empty  *)
(* criteria list and total_criteria = 0.                                *)
C4_FailedChunkSkipped ==
    /\ [][ChunkTaken /\ ChunkFails(kickoff_result')
            => all_criteria' = all_criteria /\ pc' = "chunk"]_vars
    /\ [][ChunkTaken => IsPrefix(all_criteria, all_criteria')]_vars
    /\ [](CallReturned /\ ChunkedPath => chunk_index = Len(chunks) + 1)
    /\ [](CallReturned /\ AllChunksFailed =>
            /\ Succeeded
            /\ EnvelopeCriteria = PyList(<<>>)
            /\ DictGet(Envelope.criteria, KeyTotalCriteria, PyNull) = PyInt(0))

(* of three chunks the second failed, the criteria of the first and of *)
(* the third are in the result                                         *)
C4_Witness ==
    /\ CallReturned
    /\ Len(chunks) = 3
    /\ Len(chunk_errors) = 1
    /\ chunk_errors[1].chunk = 2
    /\ all_criteria = <<CritGhg, CritWater, CritGhgHigher>>
    /\ Succeeded
    /\ EnvelopeCriteria = PyList(<<CritWater, CritGhgHigher>>)

(* a response that parses as a JSON object but breaks the expected shape *)
ShapeViolation(text) ==
    /\ json_loads(text).exc = "none"
    /\ json_loads(text).val.t = "obj"
    /\ \/ ~HasKey(json_loads(text).val, KeyCriteria)
       \/ /\ ProviderCriteria(text).t = "list"
          /\ _validate_criteria(json_loads(text).val) = Returned(FALSE)

(* C5: a shape violation never turns the envelope into status=error: a *)
(* call whose last response parsed but broke the shape, and in which   *)
(* no chunk failed, returns status=success.                            *)
C5_ShapeViolationsAdvisory ==
    (/\ CallReturned
     /\ chunk_errors = <<>>
     /\ kickoff_result.exc = "none"
     /\ ShapeViolation(kickoff_result.val))
        => Succeeded

(* no chunk failed, the last response holds a coefficient that is a *)
(* text, and the call returned status=error                         *)
C5_Witness ==
    /\ CallReturned
    /\ ChunkedPath
    /\ chunk_errors = <<>>
    /\ kickoff_result = Returned(BadShape)
    /\ caught.exc = "TypeError"
    /\ Failed_

(* C6 as stated: the envelope the job gets is status=success with a *)
(* non-empty criteria list or status=error with a diagnostic.       *)
C6_Original_PopulatedOrError ==
    CallReturned /\ extractor = "soft" =>
        \/ /\ Succeeded
           /\ EnvelopeCriteria.t = "list"
           /\ EnvelopeCriteria.v # <<>>
        \/ /\ Failed_
           /\ Envelope.error # ""

(* C6: the envelope the job gets is status=success with a criteria list, *)
(* which may be empty, of at most 15 entries counted by total_criteria,  *)
(* or status=error with a diagnostic and no criteria.                    *)
C6_SuccessListOrError ==
    CallReturned /\ extractor = "soft" =>
        /\ outcome.exc = "none"
        /\ \/ /\ Envelope.status = "success"
              /\ EnvelopeCriteria.t = "list"
              /\ Len(EnvelopeCriteria.v) <= MaxCriteria
              /\ DictGet(Envelope.criteria, KeyTotalCriteria, PyNull)
                     = PyInt(Len(EnvelopeCriteria.v))
           \/ /\ Envelope.status = "error"
              /\ Envelope.error # ""
              /\ Envelope.criteria = PyNull

(* every chunk failed and the job gets a success with no criterion *)
C6_Witness ==
    /\ CallReturned
    /\ AllChunksFailed
    /\ Len(chunks) >= 2
    /\ Succeeded
    /\ EnvelopeCriteria = PyList(<<>>)

-----------------------------------------------------------------------------
(* Properties of the chunked path on long documents (LongSpec) *)

LongTextLen == 3 * MaxChunkSize

LongCall ==
    /\ pc \in {"chunk", "returned"}
    /\ extractor = "soft"
    /\ TextLen(regulation_text) = LongTextLen

MergedNames ==
    [i \in 1..Len(EnvelopeCriteria.v) |-> NormalizedName(EnvelopeCriteria.v[i])]

(* success, at most 15 criteria, no name twice *)
MergedEnvelope ==
    /\ Succeeded
    /\ EnvelopeCriteria.t = "list"
    /\ Len(EnvelopeCriteria.v) <= MaxCriteria
    /\ \A i, j \in 1..Len(MergedNames) : MergedNames[i] = MergedNames[j] => i = j

(* C16 as stated: every text of 30,000 characters gives at least 3 chunks, *)
(* and with four criteria from each chunk the envelope is a success of at  *)
(* most 15 criteria without a duplicated name.                             *)
C16_Original_AtLeastThreeChunks ==
    /\ LongCall => Len(chunks) >= 3
    /\ (LongCall /\ CallReturned) => MergedEnvelope

(* C16: a text of 30,000 characters whose paragraphs are all shorter than *)
(* the chunk size of 10,000 gives at least 3 chunks; and for every text   *)
(* of 30,000 characters, when every chunk extraction returns 4 criteria,  *)
(* the envelope is a success of at most 15 criteria, no name twice.       *)
C16_ThreeChunksForShortParagraphs ==
    /\ (LongCall /\ \A i \in 1..Len(SplitParagraphs(regulation_text)) :
                        TextLen(SplitParagraphs(regulation_text)[i]) < MaxChunkSize)
           => Len(chunks) >= 3
    /\ (LongCall /\ CallReturned) => MergedEnvelope

(* five chunks whose extractions named 16 criteria: 15 are returned *)
C16_Witness ==
    /\ LongCall
    /\ CallReturned
    /\ Len(chunks) = 5
    /\ Cardinality({NormalizedName(all_criteria[i]) : i \in 1..Len(all_criteria)}) = 16
    /\ Len(all_criteria) = 20
    /\ MergedEnvelope
    /\ Len(EnvelopeCriteria.v) = MaxCriteria

-----------------------------------------------------------------------------
(* Properties of the single-pass error envelope (Spec) *)

(* what the extractor's safe_json_loads gives on the cleaned response *)
RepairOfResponse ==
    IF extractor = "full"
    THEN document_agents_safe_json_loads(StripFences(kickoff_result.val))
    ELSE safe_json_loads(Strip(StripFences(kickoff_result.val)))

(* a single-pass call returned, on a response no repair makes parse *)
UnparseableSinglePass ==
    /\ CallReturned
    /\ SinglePath \/ extractor = "full"
    /\ kickoff_result.exc = "none"
    /\ RepairOfResponse.exc = "JSONDecodeError"

(* C20: in the single-pass path, a response that does not parse even   *)
(* after repair gives status=error, an error text carrying the decode  *)
(* error message, and raw_result holding the provider's text.          *)
C20_UnparseableKeepsRawText ==
    UnparseableSinglePass =>
        /\ Failed_
        /\ Envelope.error = "Failed to parse JSON: " \o RepairOfResponse.msg
        /\ "raw_result" \in DOMAIN Envelope
        /\ Envelope.raw_result = kickoff_result.val

(* the soft extractor's single pass on text that is not JSON: an error *)
(* envelope without raw_result                                         *)
C20_Witness ==
    /\ UnparseableSinglePass
    /\ extractor = "soft"
    /\ kickoff_result.val = Garbage
    /\ Failed_
    /\ "raw_result" \notin DOMAIN Envelope

-----------------------------------------------------------------------------
(* Properties of the chunked path's success envelope (LongSpec) *)

ChunkedSuccess == CallReturned /\ ChunkedPath /\ Succeeded

(* C22: in a success envelope of the chunked path total_criteria is the *)
(* length of criteria.criteria, that length is at most 15, and the list *)
(* is the merger's output for the criteria accumulated in chunk order.  *)
C22_TotalIsMergedLength ==
    ChunkedSuccess =>
        /\ EnvelopeCriteria.t = "list"
        /\ DictGet(Envelope.criteria, KeyTotalCriteria, PyNull)
               = PyInt(Len(EnvelopeCriteria.v))
        /\ Len(EnvelopeCriteria.v) <= MaxCriteria
        /\ Returned(EnvelopeCriteria.v) = _merge_and_rank_criteria(all_criteria)

(* twenty accumulated criteria merged and cut: total_criteria is 15 *)
C22_Witness ==
    /\ ChunkedSuccess
    /\ Len(all_criteria) = 20
    /\ DictGet(Envelope.criteria, KeyTotalCriteria, PyNull) = PyInt(MaxCriteria)
    /\ Len(EnvelopeCriteria.v) = MaxCriteria

-----------------------------------------------------------------------------
(* Properties of the chunk loop's provider calls (Spec) *)

RECURSIVE Accumulated(_)
(* what the logged calls of this invocation leave in the accumulator *)
Accumulated(calls) ==
    IF calls = <<>> THEN <<>>
    ELSE Accumulated(SubSeq(calls, 1, Len(calls) - 1))
             \o (IF calls[Len(calls)].gave.exc = "none"
                 THEN calls[Len(calls)].gave.val ELSE <<>>)

InChunkLoop == extractor = "soft" /\ pc = "chunk"

(* C23: in one invocation of the chunked path the provider is called  *)
(* once per chunk, in chunk order, failed calls included (no retry),  *)
(* and the accumulator holds what this invocation's calls gave and    *)
(* nothing of an earlier invocation.                                  *)
C23_OneCallPerChunkFreshAccumulator ==
    /\ InChunkLoop =>
           /\ Len(chunk_calls) = chunk_index - 1
           /\ Len(chunk_calls) <= Len(chunks)
    /\ (CallReturned /\ ChunkedPath) => Len(chunk_calls) = Len(chunks)
    /\ (InChunkLoop \/ (CallReturned /\ ChunkedPath)) =>
           /\ \A k \in 1..Len(chunk_calls) : chunk_calls[k].chunk = chunks[k]
           /\ all_criteria = Accumulated(chunk_calls)
           /\ Len(chunk_errors)
                  = Cardinality({k \in 1..Len(chunk_calls) :
                                    chunk_calls[k].gave.exc # "none"})

(* an invocation of two chunks whose first call failed and whose second *)
(* gave criteria: two calls, one log line, the second call's criteria   *)
C23_Witness ==
    /\ CallReturned /\ ChunkedPath
    /\ Len(chunks) = 2
    /\ Len(chunk_calls) = 2
    /\ chunk_calls[1].gave.exc # "none"
    /\ chunk_calls[2].gave.exc = "none"
    /\ all_criteria # <<>>
    /\ all_criteria = chunk_calls[2].gave.val
    /\ Len(chunk_errors) = 1

-----------------------------------------------------------------------------
(* Properties of the chunker's chunks (ChunkSpec) *)

(* C29: every chunk returned for a text longer than max_chars is a *)
(* non-empty string.                                                *)
C29_NoEmptyChunk ==
    LongText => \A k \in 1..Len(c_chunks) : TextLen(c_chunks[k]) > 0

(* a paragraph as long as max_chars followed by a blank line: the text *)
(* ends in an empty paragraph, returned as an empty second chunk       *)
C29_Witness ==
    /\ LongText
    /\ c_text = <<Run("x", c_max), Run("\n", 2)>>
    /\ Len(c_chunks) = 2
    /\ TextLen(c_chunks[1]) = c_max
    /\ c_chunks[2] = <<>>

-----------------------------------------------------------------------------
(* Properties of the merger on criteria without a name (MergeSpec) *)

HasName(criterion) == NormalizedName(criterion) # <<>>

(* C30: every criterion of the merger's output has a non-empty normalized *)
(* name; criteria whose name is missing, empty or whitespace-only are     *)
(* dropped and change nothing for the others: the result is that of the   *)
(* input without them, and it is empty when the input holds only them.    *)
C30_NamelessDropped ==
    MergeReturned =>
        /\ m_out.exc = "none" =>
               \A i \in 1..Len(m_out.val) : HasName(m_out.val[i])
        /\ m_out = _merge_and_rank_criteria(SelectSeq(m_in, HasName))
        /\ (m_in # <<>> /\ \A k \in 1..Len(m_in) : ~HasName(m_in[k]))
               => m_out = Returned(<<>>)

(* fourteen named criteria, then one without a usable name and one more   *)
(* with a name: the fifteen named ones are returned                       *)
C30_Witness ==
    /\ MergeReturned
    /\ Len(m_in) = BulkLen + 2
    /\ Cardinality({k \in 1..Len(m_in) : ~HasName(m_in[k])}) = 1
    /\ ~HasName(m_in[BulkLen + 1])
    /\ m_out.exc = "none"
    /\ Len(m_out.val) = BulkLen + 1
    /\ \E i \in 1..Len(m_out.val) : m_out.val[i] = m_in[BulkLen + 2]

-----------------------------------------------------------------------------
(* The extractor's constructor and LLMConfig (ConstructSpec) *)

(* A client constructor called as the three attempts of lines 80-92,     *)
(* 118-125, 151-158.  api says which call the installed client accepts:   *)
(* "new" the key under the provider's own keyword, "old" api_key=,        *)
(* "environ" no key argument, "rejects" none of them (TypeError, then the *)
(* error of the last attempt), "invalid" an error that is no TypeError.   *)
ClientInstance(api, provider, model) ==
    IF api \in {"new", "old", "environ"}
    THEN Returned([provider |-> provider, model |-> model])
    ELSE IF api = "invalid" THEN Raised("ValidationError", "client rejected the configuration")
    ELSE Raised("TypeError", "unexpected keyword argument")

(* lines 54-92 *)
_get_openai_llm(tier, env) ==
    LET OPENAI_MODELS(t) ==
            IF t = "fast" THEN "gpt-3.5-turbo"
            ELSE IF t = "powerful" THEN "gpt-4-turbo-preview"
            ELSE "gpt-4"
    IN IF "openai" \notin env.installed
       THEN Raised("ImportError", "No module named 'langchain_openai'")
       ELSE IF env.keys.openai # "set"
       THEN Raised("ValueError", "OPENAI_API_KEY non configuree")
       ELSE ClientInstance(env.client, "openai", OPENAI_MODELS(tier))

(* lines 94-125; settings declares no ANTHROPIC_API_KEY (config.py) *)
_get_anthropic_llm(tier, env) ==
    LET ANTHROPIC_MODELS(t) ==
            IF t = "fast" THEN "claude-3-haiku-20240307"
            ELSE IF t = "powerful" THEN "claude-3-opus-20240229"
            ELSE "claude-3-sonnet-20240229"
    IN IF "anthropic" \notin env.installed THEN _get_openai_llm(tier, env)
       ELSE IF env.keys.anthropic = "undeclared"
       THEN Raised("AttributeError", "'Settings' object has no attribute 'ANTHROPIC_API_KEY'")
       ELSE IF env.keys.anthropic # "set"
       THEN Raised("ValueError", "ANTHROPIC_API_KEY non configuree")
       ELSE ClientInstance(env.client, "anthropic", ANTHROPIC_MODELS(tier))

(* lines 127-158; settings declares no MISTRAL_API_KEY (config.py) *)
_get_mistral_llm(tier, env) ==
    LET MISTRAL_MODELS(t) ==
            IF t = "fast" THEN "mistral-small-latest"
            ELSE IF t = "powerful" THEN "mistral-large-latest"
            ELSE "mistral-medium-latest"
    IN IF "mistral" \notin env.installed THEN _get_openai_llm(tier, env)
       ELSE IF env.keys.mistral = "undeclared"
       THEN Raised("AttributeError", "'Settings' object has no attribute 'MISTRAL_API_KEY'")
       ELSE IF env.keys.mistral # "set"
       THEN Raised("ValueError", "MISTRAL_API_KEY non configuree")
       ELSE ClientInstance(env.client, "mistral", MISTRAL_MODELS(tier))

(* lines 33-52 *)
get_llm_instance(provider, tier, env) ==
    IF provider = "openai" THEN _get_openai_llm(tier, env)
    ELSE IF provider = "anthropic" THEN _get_anthropic_llm(tier, env)
    ELSE IF provider = "mistral" THEN _get_mistral_llm(tier, env)
    ELSE Raised("ValueError", "Provider non supporte")

(* mutant: the fallback keeps the requested tier *)
_initialize_llm_KeepsTier(provider, tier, env) ==
    IF get_llm_instance(provider, tier, env).exc = "none"
    THEN get_llm_instance(provider, tier, env)
    ELSE get_llm_instance("openai", tier, env)

(* llm_document_soft_agents.py lines 33-43; the result is self.llm, or *)
(* the exception that leaves __init__                                  *)
_initialize_llm(provider, tier, env) ==
    IF get_llm_instance(provider, tier, env).exc = "none"
    THEN get_llm_instance(provider, tier, env)
    ELSE get_llm_instance("openai", "balanced", env)

(* what the process can find: which client packages are installed, what *)
(* settings holds for each key, which call the clients accept           *)
Environments ==
    [installed : SUBSET {"openai", "anthropic", "mistral"},
     keys : [openai : {"set", "unset"},
             anthropic : {"set", "unset", "undeclared"},
             mistral : {"set", "unset", "undeclared"}],
     client : {"new", "old", "environ", "rejects", "invalid"}]

ConstructInit ==
    /\ i_pc = "new"
    /\ llm_provider \in {"openai", "anthropic", "mistral", "gemini"}
    /\ llm_tier \in {"fast", "balanced", "powerful", "huge"}
    /\ environment \in Environments
    /\ llm = Returned(PyNull)
    /\ ExtractIdle
    /\ MergeIdle
    /\ ChunkIdle
    /\ RepairIdle
    /\ JobIdle

(* __init__, lines 22-31 *)
Construct ==
    /\ i_pc = "new"
    /\ llm' = _initialize_llm(llm_provider, llm_tier, environment)
    /\ i_pc' = IF _initialize_llm(llm_provider, llm_tier, environment).exc = "none"
               THEN "constructed" ELSE "raised"
    /\ UNCHANGED <<llm_provider, llm_tier, environment, extract_vars, merge_vars,
                   chunk_vars, repair_vars, job_vars>>

ConstructSpec == ConstructInit /\ [][Construct]_vars

-----------------------------------------------------------------------------
(* Properties of the constructor (ConstructSpec) *)

Requested == get_llm_instance(llm_provider, llm_tier, environment)

OpenAIBalanced == Returned([provider |-> "openai", model |-> "gpt-4"])

C21_WitnessRaises ==
    /\ i_pc = "raised"
    /\ llm_provider = "mistral"
    /\ Requested.exc = "AttributeError"
    /\ llm.exc = "ValueError"

-----------------------------------------------------------------------------
(* analyze_document_task and the readers of its document (JobSpec) *)

(* retry_kwargs = {'max_retries': 3}, and Task.max_retries for self.retry *)
MaxRetries == 3

(* what get_criteria_extractor(...).extract_criteria_from_regulation(...)   *)
(* gives the job: a success envelope of two, one or no criteria, an error  *)
(* envelope, or an exception (the constructor's, which no handler of the   *)
(* extractor catches)                                                      *)
ExtractionOutcomes ==
    {Returned(ChunkedEnvelope(merged, Metadata)) :
         merged \in {<<CritWater, CritGhg>>, <<CritGhgHigher>>, <<>>}}
        \cup {Returned(OuterExcept(Raised("AttributeError",
                                          "'str' object has no attribute 'get'"))),
              Raised("ValueError", "OPENAI_API_KEY non configuree")}

(* line 174: criteria_data.get("criteria", []) of result["criteria"] *)
CriteriaList(envelope) ==
    LET Listed(got) == IF got.exc # "none" THEN got ELSE Iterate(got.val)
    IN Listed(MethodGet(envelope.criteria, KeyCriteria, PyList(<<>>)))

(* mutant: the coefficient is not written *)
RowOf_NoCoefficient(criterion, execution) ==
    [document_id |-> 1,
     nom |-> DictGet(criterion, KeyName, PyNull),
     description |-> DictGet(criterion, KeyDescription, PyNull),
     coefficient |-> PyNull,
     execution |-> execution]

(* lines 176-184: the row of one criterion; execution (history) is the *)
(* execution of the job that inserted it                               *)
RowOf(criterion, execution) ==
    [document_id |-> 1,
     nom |-> DictGet(criterion, KeyName, PyNull),
     description |-> DictGet(criterion, KeyDescription, PyNull),
     coefficient |-> DictGet(criterion, KeyCoefficient, PyNull),
     execution |-> execution]

(* mutant: one retry more than max_retries *)
MayRetry_OneMore(done) == done <= MaxRetries

(* self.retry: another execution is scheduled unless request.retries *)
(* has reached max_retries, and then the exception is raised         *)
MayRetry(done) == done < MaxRetries

(* what psycopg2 raises when a statement or the connection fails *)
DatabaseError == Raised("OperationalError", "database statement failed")

(* upload_documents, documents.py lines 27-41: the row is committed with *)
(* status 'pending', then the task is sent                               *)
JobInit ==
    /\ j_pc = "queued"
    /\ retries = 0
    /\ executions = 0
    /\ analysis_status = "pending"
    /\ criterias = <<>>
    /\ uncommitted = <<>>
    /\ job_result = NoException
    /\ job_exc = NoException
    /\ insert_index = 1
    /\ seen_status = "unseen"
    /\ seen_criterias = <<>>
    /\ ExtractIdle
    /\ MergeIdle
    /\ ChunkIdle
    /\ RepairIdle
    /\ ConstructIdle

(* lines 67-102: connect, read the document, extract its text, commit *)
(* 'processing'; db_ok: the database statements succeed               *)
FetchDocument(db_ok) ==
    /\ j_pc = "queued"
    /\ executions' = executions + 1
    /\ uncommitted' = <<>>
    /\ job_result' = NoException
    /\ insert_index' = 1
    /\ job_exc' = IF db_ok THEN NoException ELSE DatabaseError
    /\ IF ~db_ok THEN j_pc' = "raised" /\ UNCHANGED analysis_status
       ELSE IF analysis_status = "absent"
       THEN j_pc' = "returned" /\ UNCHANGED analysis_status
       ELSE j_pc' = "extract" /\ analysis_status' = "processing"
    /\ UNCHANGED <<retries, criterias, seen_status, seen_criterias, extract_vars,
                   merge_vars, chunk_vars, repair_vars, llm_vars>>

(* lines 154-159 *)
Extract(extraction) ==
    /\ j_pc = "extract"
    /\ job_result' = extraction
    /\ job_exc' = Handled(extraction)
    /\ j_pc' = IF extraction.exc = "none" THEN "result" ELSE "raised"
    /\ UNCHANGED <<retries, executions, analysis_status, criterias, uncommitted,
                   insert_index, seen_status, seen_criterias, extract_vars,
                   merge_vars, chunk_vars, repair_vars, llm_vars>>

(* mutant: an error envelope is raised as an exception *)
HandleResult_ErrorRaises(db_ok) ==
    /\ j_pc = "result"
    /\ IF job_result.val.status = "success" /\ db_ok
       THEN analysis_status' = "completed" /\ j_pc' = "insert" /\ UNCHANGED job_exc
       ELSE /\ j_pc' = "raised"
            /\ job_exc' = IF db_ok THEN Raised("RuntimeError", "extraction failed")
                           ELSE DatabaseError
            /\ UNCHANGED analysis_status
    /\ UNCHANGED <<retries, executions, criterias, uncommitted, job_result,
                   insert_index, seen_status, seen_criterias, extract_vars,
                   merge_vars, chunk_vars, repair_vars, llm_vars>>

(* lines 162-174 and 193-203: a success envelope commits 'completed' and *)
(* goes on to the criteria; any other commits 'failed' and returns       *)
HandleResult(db_ok) ==
    /\ j_pc = "result"
    /\ IF ~db_ok
       THEN j_pc' = "raised" /\ job_exc' = DatabaseError /\ UNCHANGED analysis_status
       ELSE IF job_result.val.status = "success"
       THEN /\ analysis_status' = "completed"
            /\ j_pc' = IF CriteriaList(job_result.val).exc = "none"
                       THEN "insert" ELSE "raised"
            /\ job_exc' = Handled(CriteriaList(job_result.val))
       ELSE analysis_status' = "failed" /\ j_pc' = "returned" /\ UNCHANGED job_exc
    /\ UNCHANGED <<retries, executions, criterias, uncommitted, job_result,
                   insert_index, seen_status, seen_criterias, extract_vars,
                   merge_vars, chunk_vars, repair_vars, llm_vars>>

(* lines 174-189: one INSERT; on an error the transaction is rolled back *)
(* and the error raised again                                            *)
InsertCriterion(db_ok) ==
    /\ j_pc = "insert"
    /\ insert_index <= Len(CriteriaList(job_result.val).val)
    /\ IF db_ok /\ CriteriaList(job_result.val).val[insert_index].t = "obj"
       THEN /\ uncommitted' =
                   Append(uncommitted,
                          RowOf(CriteriaList(job_result.val).val[insert_index],
                                executions))
            /\ insert_index' = insert_index + 1
            /\ UNCHANGED <<j_pc, job_exc>>
       ELSE /\ uncommitted' = <<>>
            /\ j_pc' = "raised"
            /\ job_exc' =
                   IF CriteriaList(job_result.val).val[insert_index].t = "obj"
                   THEN DatabaseError
                   ELSE Raised("AttributeError", "object has no attribute 'get'")
            /\ UNCHANGED insert_index
    /\ UNCHANGED <<retries, executions, analysis_status, criterias, job_result,
                   seen_status, seen_criterias, extract_vars, merge_vars,
                   chunk_vars, repair_vars, llm_vars>>

(* lines 190-203: the commit after the loop *)
CommitCriteria(db_ok) ==
    /\ j_pc = "insert"
    /\ insert_index > Len(CriteriaList(job_result.val).val)
    /\ IF db_ok
       THEN criterias' = criterias \o uncommitted /\ j_pc' = "returned"
                /\ UNCHANGED job_exc
       ELSE j_pc' = "raised" /\ job_exc' = DatabaseError /\ UNCHANGED criterias
    /\ uncommitted' = <<>>
    /\ UNCHANGED <<retries, executions, analysis_status, job_result, insert_index,
                   seen_status, seen_criterias, extract_vars, merge_vars,
                   chunk_vars, repair_vars, llm_vars>>

(* lines 204-223: the handler writes 'failed_2' on a connection of its  *)
(* own, ignoring an error of that (except: pass), and asks for a retry  *)
ExceptHandler(db_ok) ==
    /\ j_pc = "raised"
    /\ analysis_status' =
           IF db_ok /\ analysis_status # "absent" THEN "failed_2" ELSE analysis_status
    /\ IF MayRetry(retries)
       THEN retries' = retries + 1 /\ j_pc' = "queued"
       ELSE j_pc' = "failed" /\ UNCHANGED retries
    /\ uncommitted' = <<>>
    /\ UNCHANGED <<executions, criterias, job_result, job_exc, insert_index, seen_status,
                   seen_criterias, extract_vars, merge_vars, chunk_vars,
                   repair_vars, llm_vars>>

(* documents.py lines 94-121: GET of the analysis reads the status *)
get_document_analysis ==
    /\ j_pc # "none"
    /\ seen_status' = analysis_status
    /\ UNCHANGED <<j_pc, retries, executions, analysis_status, criterias,
                   uncommitted, job_result, job_exc, insert_index, seen_criterias,
                   extract_vars, merge_vars, chunk_vars, repair_vars, llm_vars>>

(* documents.py lines 158-181: GET of /criterias reads the committed rows *)
(* (no row: 404)                                                          *)
get_criterias ==
    /\ j_pc # "none"
    /\ seen_criterias' = criterias
    /\ UNCHANGED <<j_pc, retries, executions, analysis_status, criterias,
                   uncommitted, job_result, job_exc, insert_index, seen_status,
                   extract_vars, merge_vars, chunk_vars, repair_vars, llm_vars>>

(* a step of the job *)
JobStep ==
    \/ \E db_ok \in BOOLEAN : FetchDocument(db_ok)
    \/ \E extraction \in ExtractionOutcomes : Extract(extraction)
    \/ \E db_ok \in BOOLEAN : HandleResult(db_ok)
    \/ \E db_ok \in BOOLEAN : InsertCriterion(db_ok)
    \/ \E db_ok \in BOOLEAN : CommitCriteria(db_ok)
    \/ \E db_ok \in BOOLEAN : ExceptHandler(db_ok)

JobNext == JobStep \/ get_document_analysis \/ get_criterias

JobSpec == JobInit /\ [][JobNext]_vars

(* the worker runs a task it has received, and a task that runs goes on *)
JobLiveSpec == JobSpec /\ WF_vars(JobStep)

-----------------------------------------------------------------------------
(* Properties of the analysis job (JobSpec, JobLiveSpec) *)

JobOver == j_pc \in {"returned", "failed"}

(* C24: the job body is executed at most once plus MaxRetries times; each *)
(* execution after an exception starts at the top of the body with a new  *)
(* transaction and a new extraction; a job that has returned, or failed   *)
(* for the last time, is not executed again; and the job ends.            *)
C24_BoundedRetries ==
    /\ [](/\ executions <= MaxRetries + 1
          /\ retries <= MaxRetries
          /\ (j_pc \notin {"queued", "none"}) => executions = retries + 1
          /\ j_pc = "failed" => executions = MaxRetries + 1)
    /\ [][/\ executions' # executions =>
                 /\ j_pc = "queued"
                 /\ executions' = executions + 1
                 /\ uncommitted' = <<>>
                 /\ job_result' = NoException
                 /\ insert_index' = 1
          /\ JobOver => (j_pc' = j_pc /\ executions' = executions)]_vars
    /\ <>[]JobOver

(* four executions raised: the job has failed and stays so *)
C24_Witness ==
    /\ j_pc = "failed"
    /\ executions = MaxRetries + 1
    /\ retries = MaxRetries

(* the job's extraction gave a success envelope *)
GotSuccess == job_result.exc = "none" /\ job_result.val.status = "success"

(* the list under criteria.criteria of the job's success envelope *)
ResultCriteria == DictGet(job_result.val.criteria, KeyCriteria, PyList(<<>>)).v

C26_CompletedMeansRowsCommitted ==
    /\ [](analysis_status = "completed" =>
              /\ GotSuccess
              /\ Len(criterias) = Len(ResultCriteria))
    /\ [][analysis_status = "completed" => analysis_status' = "completed"]_vars

(* a GET answered 'completed' for an envelope of two criteria; an insert *)
(* failed, no row is committed and the status is now 'failed_2'          *)
C26_Witness ==
    /\ seen_status = "completed"
    /\ analysis_status = "failed_2"
    /\ j_pc = "queued"
    /\ GotSuccess
    /\ Len(ResultCriteria) = 2
    /\ criterias = <<>>

(* the status changes the claim allows *)
StatusMoves ==
    {<<"pending", "processing">>, <<"processing", "completed">>,
     <<"processing", "failed">>, <<"processing", "failed_2">>,
     <<"failed_2", "processing">>}

(* C27: the committed status only changes along pending -> processing ->   *)
(* completed, failed or failed_2, and failed_2 -> processing; when the job *)
(* is over the status is completed, failed or failed_2.                    *)
C27_StatusPath ==
    /\ [][analysis_status' # analysis_status =>
              <<analysis_status, analysis_status'>> \in StatusMoves]_vars
    /\ [](JobOver => analysis_status \in {"completed", "failed", "failed_2"})

(* a document that a GET showed as 'completed' is 'processing' again *)
C27_Witness ==
    /\ seen_status = "completed"
    /\ analysis_status = "processing"
    /\ retries >= 1

(* the job is over and its document is left in 'processing' *)
C27_WitnessLeftProcessing ==
    /\ j_pc = "failed"
    /\ analysis_status = "processing"

(* C28: the job that handles an error envelope commits 'failed', writes *)
(* no row and returns without a retry, unless that UPDATE raises; only  *)
(* the handler of a raised exception writes 'failed_2' and asks for a   *)
(* retry.                                                               *)
C28_ErrorEnvelopeFailsWithoutRetry ==
    /\ [][/\ (/\ j_pc = "result"
              /\ job_result.val.status = "error"
              /\ j_pc' # "result") =>
                 \/ /\ j_pc' = "returned"
                    /\ analysis_status' = "failed"
                    /\ criterias' = criterias
                    /\ uncommitted' = <<>>
                    /\ retries' = retries
                 \/ /\ j_pc' = "raised"
                    /\ job_exc' = DatabaseError
          /\ (analysis_status' = "failed_2" /\ analysis_status # "failed_2") =>
                 j_pc = "raised"
          /\ retries' # retries => j_pc = "raised"
          /\ j_pc' = "raised" => job_exc'.exc # "none"]_vars
    /\ []((j_pc = "returned" /\ job_result.exc = "none" /\ ~GotSuccess) =>
              /\ analysis_status = "failed"
              /\ criterias = <<>>)

(* the first execution got an error envelope: 'failed', no row, no retry *)
C28_Witness ==
    /\ j_pc = "returned"
    /\ job_result.exc = "none"
    /\ job_result.val.status = "error"
    /\ analysis_status = "failed"
    /\ criterias = <<>>
    /\ executions = 1
    /\ retries = 0

=============================================================================
